---- MODULE Spec2Model ----
(***************************************************************************)
(* Verification model of osm_relation_ways: the way stitcher               *)
(* (osm_relation_ways.py), the route builder, projection and stop queries  *)
(* (locate_on_route.py, route_websocket_tracker.py) and the websocket fix  *)
(* loop (route_websocket_tracker.py).                                      *)
(***************************************************************************)
EXTENDS Integers, Sequences, FiniteSets, TLC

\* ---------------------------------------------------------------- bounds
MaxWays == 4
NumNodes == 4

\* the stitcher: its input, its position (stitch_pc) and its locals
VARIABLES raw_ways, stitch_pc, current_node, used_way_ids, ordered_segments,
          chain_segments, current_chain, final_chain, pending_chains, ordered_ways

stitch_vars == <<raw_ways, stitch_pc, current_node, used_way_ids, ordered_segments,
                 chain_segments, current_chain, final_chain, pending_chains, ordered_ways>>

\* the route builder, the projection and the stop index: the stitched ways
\* (route_data), the line and length built from them, the located position
\* and the stops
VARIABLES route_data, route_pc, route_line, total_route_length, location,
          location_info, stop_nodes, sorted_stops

route_vars == <<route_data, route_pc, route_line, total_route_length, location,
                location_info, stop_nodes, sorted_stops>>

\* the stop query of the tracker: the stops it loaded, the cursor distance
\* and the stops found before and after it
VARIABLES stops_data, stops_pc, current_distance, previous_stop, next_stop

stops_vars == <<stops_data, stops_pc, current_distance, previous_stop, next_stop>>

\* the maneuver extractor: the ways it is given, the points of the route,
\* the index of the turn scan, the turns and the maneuvers found
VARIABLES gps_ways, gps_pc, route_points, scan_i, turn_points, significant_points

gps_vars == <<gps_ways, gps_pc, route_points, scan_i, turn_points, significant_points>>

\* the websocket fix loop: the flag and the caches of the WebSocketTracker,
\* the suspension point start_tracking is at (loop_pc), the clock read by
\* time.time() (now), the locations at which the Tracker raises
\* (raising_locations), the history of the fixes handed to
\* handle_position_update (fix_log) and what the last recv of the
\* connection ended with (received)
VARIABLES running, loop_pc, last_position, last_result, last_update_time,
          now, raising_locations, fix_log, received

loop_vars == <<running, loop_pc, last_position, last_result, last_update_time,
               now, raising_locations, fix_log, received>>

\* nothing received on the connection yet
nothing_received == [kind |-> "none", vehicle |-> <<>>]

\* the navigation of the RouteTracker: whether initialize_navigation has
\* run (nav_pc), the maneuvers it stored (navigation_points) and the hint
\* returned by the last update_navigation_distances (hint)
VARIABLES nav_pc, navigation_points, hint

nav_vars == <<nav_pc, navigation_points, hint>>

NavIdle ==
    /\ nav_pc = "input"
    /\ navigation_points = <<>>
    /\ hint = <<>>

\* the summary file: the stops save_files is given (summary_stops), the
\* lines it writes (summary_data) and the stops load_data reads back from
\* them (stops_from_summary)
VARIABLES summary_pc, summary_stops, summary_data, stops_from_summary

summary_vars == <<summary_pc, summary_stops, summary_data, stops_from_summary>>

SummaryIdle ==
    /\ summary_pc = "input"
    /\ summary_stops = <<>>
    /\ summary_data = <<>>
    /\ stops_from_summary = <<>>

\* find_segment_index: the distance it is asked about (None before the
\* call) and the record it returns (None when it finds no way)
VARIABLES target_distance, segment_info

segment_vars == <<target_distance, segment_info>>

SegmentIdle ==
    /\ target_distance = <<>>
    /\ segment_info = <<>>

\* a component that a specification does not run stays as constructed
LoopIdle ==
    /\ running = FALSE
    /\ loop_pc = "constructed"
    /\ last_position = <<>>
    /\ last_result = <<>>
    /\ last_update_time = <<>>
    /\ now = 0
    /\ raising_locations = {}
    /\ fix_log = <<>>
    /\ received = nothing_received

GpsIdle ==
    /\ gps_ways = <<>>
    /\ gps_pc = "input"
    /\ route_points = <<>>
    /\ scan_i = 0
    /\ turn_points = <<>>
    /\ significant_points = <<>>

StopsIdle ==
    /\ stops_data = <<>>
    /\ stops_pc = "input"
    /\ current_distance = 0
    /\ previous_stop = <<>>
    /\ next_stop = <<>>

RouteIdle ==
    /\ route_data = <<>>
    /\ route_pc = "input"
    /\ route_line = <<>>
    /\ total_route_length = 0
    /\ location = <<>>
    /\ location_info = <<>>
    /\ stop_nodes = <<>>
    /\ sorted_stops = <<>>

StitchIdle ==
    /\ raw_ways = <<>>
    /\ stitch_pc = "input"
    /\ current_node = 0
    /\ used_way_ids = {}
    /\ ordered_segments = <<>>
    /\ chain_segments = <<>>
    /\ current_chain = <<>>
    /\ final_chain = <<>>
    /\ pending_chains = <<>>
    /\ ordered_ways = <<>>

other_than_stitch == <<route_vars, stops_vars, gps_vars, loop_vars, nav_vars, summary_vars,
    segment_vars>>

other_than_route == <<stitch_vars, stops_vars, gps_vars, loop_vars, nav_vars, summary_vars,
    segment_vars>>

other_than_stops == <<stitch_vars, route_vars, gps_vars, loop_vars, nav_vars, summary_vars,
    segment_vars>>

other_than_gps == <<stitch_vars, route_vars, stops_vars, loop_vars, nav_vars, summary_vars,
    segment_vars>>

other_than_loop == <<stitch_vars, route_vars, stops_vars, gps_vars, nav_vars, summary_vars,
    segment_vars>>

vars == <<stitch_vars, route_vars, stops_vars, gps_vars, loop_vars, nav_vars,
         summary_vars, segment_vars>>

\* ------------------------------------------------------- generic helpers
Reverse(s) == [i \in 1..Len(s) |-> s[Len(s) + 1 - i]]

Min(a, b) == IF a < b THEN a ELSE b

Max(a, b) == IF a > b THEN a ELSE b

\* ===================================================================
\* Stitcher: arrange_ways_bidirectionally (osm_relation_ways.py)
\* ===================================================================

\* a raw way as extract_ways_and_stops builds it: the coordinates are looked
\* up per node id, start_node / end_node are the first / last node id
CoordOf(n) == <<n, 0>>

RawWay(id, ids) ==
    [id |-> id,
     nodes |-> [i \in 1..Len(ids) |-> CoordOf(ids[i])],
     node_ids |-> ids,
     start_node |-> ids[1],
     end_node |-> ids[Len(ids)]]

\* RouteSegment: a way and its orientation
RouteSegment(way, rev) == [way |-> way, reversed |-> rev]

seg_start_node(s) == IF s.reversed THEN s.way.end_node ELSE s.way.start_node

seg_end_node(s) == IF s.reversed THEN s.way.start_node ELSE s.way.end_node

\* mutant: a reversed segment keeps the end nodes of its way
to_dict_keep_ends(s) ==
    IF s.reversed
    THEN [id |-> s.way.id,
          nodes |-> Reverse(s.way.nodes),
          node_ids |-> Reverse(s.way.node_ids),
          start_node |-> s.way.start_node,
          end_node |-> s.way.end_node,
          reversed |-> TRUE]
    ELSE s.way

to_dict(s) ==
    IF s.reversed
    THEN [id |-> s.way.id,
          nodes |-> Reverse(s.way.nodes),
          node_ids |-> Reverse(s.way.node_ids),
          start_node |-> s.way.end_node,
          end_node |-> s.way.start_node,
          reversed |-> TRUE]
    ELSE s.way

is_loop(way) == way.start_node = way.end_node

loop_ways_of(raw) == SelectSeq(raw, is_loop)

not_loop(way) == way.start_node # way.end_node

route_ways_of(raw) == SelectSeq(raw, not_loop)

\* node_connections is filled way by way, start node first (lines 409-419)
node_mentions(rw) ==
    [i \in 1..(2 * Len(rw)) |->
        IF i % 2 = 1 THEN rw[(i + 1) \div 2].start_node ELSE rw[i \div 2].end_node]

\* keys of node_connections in insertion order
node_keys(rw) ==
    LET first_mentions ==
            SelectSeq([i \in 1..(2 * Len(rw)) |-> i],
                      LAMBDA i : \A j \in 1..(i - 1) : node_mentions(rw)[j] # node_mentions(rw)[i])
    IN [k \in 1..Len(first_mentions) |-> node_mentions(rw)[first_mentions[k]]]

\* node_connections[n]: ids of the route ways that touch n, in input order
node_connections(rw, n) ==
    LET touching == SelectSeq(rw, LAMBDA w : w.start_node = n \/ w.end_node = n)
    IN [i \in 1..Len(touching) |-> touching[i].id]

endpoints_of(rw) ==
    SelectSeq(node_keys(rw), LAMBDA n : Len(node_connections(rw, n)) = 1)

\* the first key with the fewest connections (a stable sort by len)
fewest_connections_node(rw) ==
    LET i == CHOOSE i \in 1..Len(node_keys(rw)) :
                 /\ \A j \in 1..Len(node_keys(rw)) :
                        Len(node_connections(rw, node_keys(rw)[i]))
                          <= Len(node_connections(rw, node_keys(rw)[j]))
                 /\ \A j \in 1..(i - 1) :
                        Len(node_connections(rw, node_keys(rw)[j]))
                          > Len(node_connections(rw, node_keys(rw)[i]))
    IN node_keys(rw)[i]

select_start_node(rw) ==
    IF Len(endpoints_of(rw)) >= 2 THEN endpoints_of(rw)[1]
    ELSE fewest_connections_node(rw)

\* way_map: the way of an id (a dict comprehension: the last way wins)
way_map(rw, id) ==
    LET i == CHOOSE i \in 1..Len(rw) :
                 rw[i].id = id /\ \A j \in (i + 1)..Len(rw) : rw[j].id # id
    IN rw[i]

unused_at_ignoring_used(rw, node, used) == node_connections(rw, node)

unused_at(rw, node, used) ==
    SelectSeq(node_connections(rw, node), LAMBDA id : id \notin used)

connecting_ways_original(rw, node, used) ==
    SelectSeq(unused_at(rw, node, used), LAMBDA id : way_map(rw, id).start_node = node)

connecting_ways_reversed(rw, node, used) ==
    SelectSeq(unused_at(rw, node, used),
              LAMBDA id : way_map(rw, id).start_node # node /\ way_map(rw, id).end_node = node)

\* the main walk's choice: the natural orientation first
next_segment_main(rw, node, used) ==
    IF connecting_ways_original(rw, node, used) # <<>>
    THEN <<RouteSegment(way_map(rw, connecting_ways_original(rw, node, used)[1]), FALSE)>>
    ELSE IF connecting_ways_reversed(rw, node, used) # <<>>
    THEN <<RouteSegment(way_map(rw, connecting_ways_reversed(rw, node, used)[1]), TRUE)>>
    ELSE <<>>

\* ---- residual chain collection
\* unused ways at the original endpoints, in the order the loops visit them
endpoint_candidates(rw, used) ==
    SelectSeq(endpoints_of(rw), LAMBDA n : unused_at(rw, n, used) # <<>>)

\* the seed of a new chain: the first unused way at an original endpoint
endpoint_seed(rw, used) ==
    IF endpoint_candidates(rw, used) = <<>> THEN <<>>
    ELSE LET node == endpoint_candidates(rw, used)[1]
             way == way_map(rw, unused_at(rw, node, used)[1])
         IN <<[way |-> way, at_endpoint |-> way.start_node = node]>>

\* otherwise the first unused way of the input, not at an endpoint
any_seed(rw, used) ==
    LET unused == SelectSeq(rw, LAMBDA w : w.id \notin used)
    IN IF unused = <<>> THEN <<>> ELSE <<[way |-> unused[1], at_endpoint |-> FALSE]>>

select_seed(rw, used) ==
    IF endpoint_seed(rw, used) # <<>> THEN endpoint_seed(rw, used) ELSE any_seed(rw, used)

\* unused ways other than the seed at a node (lookahead of one)
future_connections(rw, node, used, own) ==
    Len(SelectSeq(node_connections(rw, node), LAMBDA id : id \notin used /\ id # own))

seed_segment(rw, seed, used) ==
    IF seed.at_endpoint THEN RouteSegment(seed.way, FALSE)
    ELSE RouteSegment(seed.way,
             future_connections(rw, seed.way.start_node, used, seed.way.id)
               > future_connections(rw, seed.way.end_node, used, seed.way.id))

\* a residual chain takes the first unused way at the node, whatever its orientation
next_segment_chain(rw, node, used) ==
    IF unused_at(rw, node, used) = <<>> THEN <<>>
    ELSE LET way == way_map(rw, unused_at(rw, node, used)[1])
         IN <<RouteSegment(way, way.start_node # node)>>

\* ---- chain consolidation
\* all_chains.sort(key=len, reverse=True): stable, longest first
sort_by_len_desc(chains) ==
    LET rank(i) == Cardinality({j \in 1..Len(chains) : Len(chains[j]) > Len(chains[i])})
                   + Cardinality({j \in 1..(i - 1) : Len(chains[j]) = Len(chains[i])}) + 1
    IN [k \in 1..Len(chains) |-> chains[CHOOSE i \in 1..Len(chains) : rank(i) = k]]

\* mutant: the chain is put in reverse order, every segment as it was
flip_chain_keep_flags(chain) ==
    [i \in 1..Len(chain) |-> chain[Len(chain) + 1 - i]]

flip_chain(chain) ==
    [i \in 1..Len(chain) |->
        RouteSegment(chain[Len(chain) + 1 - i].way, ~chain[Len(chain) + 1 - i].reversed)]

\* mutant: a chain that matches no endpoint of the main chain is dropped
splice_drop_unmatched(main, chain) ==
    IF chain = <<>> \/ main = <<>> THEN main \o chain
    ELSE LET chain_start == seg_start_node(chain[1])
             chain_end == seg_end_node(chain[Len(chain)])
             main_start == seg_start_node(main[1])
             main_end == seg_end_node(main[Len(main)])
         IN IF main_end = chain_start THEN main \o chain
            ELSE IF main_start = chain_end THEN chain \o main
            ELSE IF main_end = chain_end THEN main \o flip_chain(chain)
            ELSE IF main_start = chain_start THEN flip_chain(chain) \o main
            ELSE main

splice(main, chain) ==
    IF chain = <<>> \/ main = <<>> THEN main \o chain
    ELSE LET chain_start == seg_start_node(chain[1])
             chain_end == seg_end_node(chain[Len(chain)])
             main_start == seg_start_node(main[1])
             main_end == seg_end_node(main[Len(main)])
         IN IF main_end = chain_start THEN main \o chain
            ELSE IF main_start = chain_end THEN chain \o main
            ELSE IF main_end = chain_end THEN main \o flip_chain(chain)
            ELSE IF main_start = chain_start THEN flip_chain(chain) \o main
            ELSE main \o chain

\* ---- global orientation heuristic
is_reversed(way) == "reversed" \in DOMAIN way /\ way.reversed

reversed_count(ways) == Cardinality({i \in 1..Len(ways) : is_reversed(ways[i])})

\* the test of line 611: the loops are counted in len(ordered_ways)
should_flip(ways) == 2 * reversed_count(ways) > Len(ways)

\* mutant: the global flip swaps the end nodes but keeps the node lists
flip_way_keep_lists(way) ==
    [id |-> way.id,
     nodes |-> way.nodes,
     node_ids |-> way.node_ids,
     start_node |-> way.end_node,
     end_node |-> way.start_node,
     reversed |-> IF "reversed" \in DOMAIN way THEN ~way.reversed ELSE TRUE]

flip_way(way) ==
    [id |-> way.id,
     nodes |-> Reverse(way.nodes),
     node_ids |-> Reverse(way.node_ids),
     start_node |-> way.end_node,
     end_node |-> way.start_node,
     reversed |-> IF "reversed" \in DOMAIN way THEN ~way.reversed ELSE TRUE]

\* mutant: the global flip turns the whole list, the loops with it
global_flip_with_loops(ways, loops) ==
    LET turned == Reverse(ways)
    IN [i \in 1..Len(turned) |-> flip_way(turned[i])]

global_flip(ways, loops) ==
    LET non_loop_ways == Reverse(SelectSeq(ways, not_loop))
    IN [i \in 1..Len(non_loop_ways) |-> flip_way(non_loop_ways[i])] \o loops

\* ordered_ways of line 604: the dicts of the chain, then the loops
ordered_before_flip(chain, loops) ==
    [i \in 1..Len(chain) |-> to_dict(chain[i])] \o loops

\* lines 600-645: conversion to dicts, loops, global flip
finish_ordering(chain, loops) ==
    IF should_flip(ordered_before_flip(chain, loops))
    THEN global_flip(ordered_before_flip(chain, loops), loops)
    ELSE ordered_before_flip(chain, loops)

\* ---- the stitcher as a state machine.  An input is assembled way by way;
\* then every iteration of the stitcher's loops is one step.  Node ids are
\* opaque (the code only compares them), so the inputs are enumerated up to
\* renaming: a way may use the nodes seen so far and the next fresh one.  Way
\* ids are the positions in the input; every way has one interior node of its
\* own.
max_node(raw) ==
    IF raw = <<>> THEN 0
    ELSE CHOOSE m \in 1..NumNodes :
            /\ \E i \in 1..Len(raw) : m \in {raw[i].start_node, raw[i].end_node}
            /\ \A i \in 1..Len(raw) : raw[i].start_node <= m /\ raw[i].end_node <= m

InteriorNode(id) == 100 + id

StitchInit ==
    /\ StitchIdle
    /\ RouteIdle
    /\ StopsIdle
    /\ GpsIdle
    /\ LoopIdle
    /\ NavIdle
    /\ SummaryIdle
    /\ SegmentIdle

AddWay ==
    /\ stitch_pc = "input"
    /\ Len(raw_ways) < MaxWays
    /\ \E s \in 1..Min(NumNodes, max_node(raw_ways) + 1) :
         \E e \in 1..Min(NumNodes, Max(max_node(raw_ways), s) + 1) :
            raw_ways' = Append(raw_ways,
                               RawWay(Len(raw_ways) + 1, <<s, InteriorNode(Len(raw_ways) + 1), e>>))
    /\ UNCHANGED <<stitch_pc, current_node, used_way_ids, ordered_segments, chain_segments,
                   current_chain, final_chain, pending_chains, ordered_ways>>
    /\ UNCHANGED other_than_stitch

\* lines 357-404: an empty input, or one without a non-loop way, is returned as it is
ReturnUnchanged ==
    /\ stitch_pc = "input"
    /\ route_ways_of(raw_ways) = <<>>
    /\ ordered_ways' = raw_ways
    /\ stitch_pc' = "done"
    /\ UNCHANGED <<raw_ways, current_node, used_way_ids, ordered_segments, chain_segments,
                   current_chain, final_chain, pending_chains>>
    /\ UNCHANGED other_than_stitch

\* lines 406-451: the indexes and the start node
StartWalk ==
    /\ stitch_pc = "input"
    /\ route_ways_of(raw_ways) # <<>>
    /\ current_node' = select_start_node(route_ways_of(raw_ways))
    /\ stitch_pc' = "walk"
    /\ UNCHANGED <<raw_ways, used_way_ids, ordered_segments, chain_segments,
                   current_chain, final_chain, pending_chains, ordered_ways>>
    /\ UNCHANGED other_than_stitch

\* lines 453-486: one iteration of the main walk
WalkStep ==
    /\ stitch_pc = "walk"
    /\ \E nxt \in {next_segment_main(route_ways_of(raw_ways), current_node, used_way_ids)} :
          IF nxt = <<>>
          THEN /\ stitch_pc' = "chains"
               /\ UNCHANGED <<ordered_segments, used_way_ids, current_node>>
          ELSE /\ ordered_segments' = Append(ordered_segments, nxt[1])
               /\ used_way_ids' = used_way_ids \cup {nxt[1].way.id}
               /\ current_node' = seg_end_node(nxt[1])
               /\ UNCHANGED stitch_pc
    /\ UNCHANGED <<raw_ways, chain_segments, current_chain, final_chain, pending_chains,
                   ordered_ways>>
    /\ UNCHANGED other_than_stitch

\* lines 491-538: the first segment of a new residual chain
StartChain ==
    /\ stitch_pc = "chains"
    /\ Cardinality(used_way_ids) < Len(route_ways_of(raw_ways))
    /\ \E seed \in {select_seed(route_ways_of(raw_ways), used_way_ids)} :
          /\ seed # <<>>
          /\ \E segment \in {seed_segment(route_ways_of(raw_ways), seed[1], used_way_ids)} :
                /\ current_chain' = <<segment>>
                /\ used_way_ids' = used_way_ids \cup {segment.way.id}
                /\ current_node' = seg_end_node(segment)
    /\ stitch_pc' = "grow"
    /\ UNCHANGED <<raw_ways, ordered_segments, chain_segments, final_chain, pending_chains,
                   ordered_ways>>
    /\ UNCHANGED other_than_stitch

\* lines 541-563: one iteration of the growth of the residual chain
GrowChain ==
    /\ stitch_pc = "grow"
    /\ \E nxt \in {next_segment_chain(route_ways_of(raw_ways), current_node, used_way_ids)} :
          IF nxt = <<>>
          THEN /\ chain_segments' = Append(chain_segments, current_chain)
               /\ stitch_pc' = "chains"
               /\ UNCHANGED <<current_chain, used_way_ids, current_node>>
          ELSE /\ current_chain' = Append(current_chain, nxt[1])
               /\ used_way_ids' = used_way_ids \cup {nxt[1].way.id}
               /\ current_node' = seg_end_node(nxt[1])
               /\ UNCHANGED <<chain_segments, stitch_pc>>
    /\ UNCHANGED <<raw_ways, ordered_segments, final_chain, pending_chains, ordered_ways>>
    /\ UNCHANGED other_than_stitch

\* lines 565-572: all chains, the longest first
SortChains ==
    /\ stitch_pc = "chains"
    /\ ~(/\ Cardinality(used_way_ids) < Len(route_ways_of(raw_ways))
         /\ select_seed(route_ways_of(raw_ways), used_way_ids) # <<>>)
    /\ \E all_chains \in {sort_by_len_desc(<<ordered_segments>> \o chain_segments)} :
          /\ final_chain' = all_chains[1]
          /\ pending_chains' = Tail(all_chains)
    /\ stitch_pc' = "consolidate"
    /\ UNCHANGED <<raw_ways, current_node, used_way_ids, ordered_segments, chain_segments,
                   current_chain, ordered_ways>>
    /\ UNCHANGED other_than_stitch

\* lines 574-598: one chain is spliced to the main chain
SpliceChain ==
    /\ stitch_pc = "consolidate"
    /\ pending_chains # <<>>
    /\ final_chain' = splice(final_chain, Head(pending_chains))
    /\ pending_chains' = Tail(pending_chains)
    /\ UNCHANGED <<raw_ways, stitch_pc, current_node, used_way_ids, ordered_segments,
                   chain_segments, current_chain, ordered_ways>>
    /\ UNCHANGED other_than_stitch

\* lines 600-645: dicts, loops, global flip, return
FinishOrdering ==
    /\ stitch_pc = "consolidate"
    /\ pending_chains = <<>>
    /\ ordered_ways' = finish_ordering(final_chain, loop_ways_of(raw_ways))
    /\ stitch_pc' = "done"
    /\ UNCHANGED <<raw_ways, current_node, used_way_ids, ordered_segments, chain_segments,
                   current_chain, final_chain, pending_chains>>
    /\ UNCHANGED other_than_stitch

StitchNext ==
    \/ AddWay
    \/ ReturnUnchanged
    \/ StartWalk
    \/ WalkStep
    \/ StartChain
    \/ GrowChain
    \/ SortChains
    \/ SpliceChain
    \/ FinishOrdering

SpecStitch == StitchInit /\ [][StitchNext]_stitch_vars

\* what is left of the call: the loop it is in, then the ways not yet used
\* (twice, plus one inside the growth of a chain) or the chains not yet
\* spliced
remaining_steps ==
    LET unused == Len(route_ways_of(raw_ways)) - Cardinality(used_way_ids)
        span == 2 * Len(raw_ways) + 2
    IN  CASE stitch_pc = "input" -> 4 * span
          [] stitch_pc = "walk" -> 3 * span + unused
          [] stitch_pc = "chains" -> 2 * span + 2 * unused
          [] stitch_pc = "grow" -> 2 * span + 2 * unused + 1
          [] stitch_pc = "consolidate" -> span + Len(pending_chains)
          [] OTHER -> 0

arranged == stitch_pc = "done"

flip_applied ==
    /\ arranged
    /\ route_ways_of(raw_ways) # <<>>
    /\ should_flip(ordered_before_flip(final_chain, loop_ways_of(raw_ways)))

\* C1: every input way id occurs exactly once in the arranged list, which is
\* as long as the input, with and without the global flip.
C1_Coverage ==
    arranged =>
        /\ Len(ordered_ways) = Len(raw_ways)
        /\ \A i \in 1..Len(raw_ways) :
              Cardinality({j \in 1..Len(ordered_ways) : ordered_ways[j].id = raw_ways[i].id}) = 1

\* an arranged input of non-loop ways and a loop, with the global flip applied
C1_Witness ==
    /\ arranged
    /\ Len(raw_ways) >= 3
    /\ loop_ways_of(raw_ways) # <<>>
    /\ flip_applied

\* C2: after the global-flip heuristic at most half of the non-loop chain is
\* flagged reversed.
C2_OrientationMinimality ==
    arranged => 2 * reversed_count(ordered_ways) <= Len(route_ways_of(raw_ways))

\* C3: every non-loop way of the output starts and ends at the ends of its
\* node list, and its node lists are the source's reversed exactly when it
\* is flagged reversed (in source order otherwise).
C3_WayOrientation ==
    arranged =>
        \A j \in 1..Len(ordered_ways) :
            LET w == ordered_ways[j]
                src == way_map(raw_ways, w.id)
            IN not_loop(w) =>
                 /\ w.start_node = w.node_ids[1]
                 /\ w.end_node = w.node_ids[Len(w.node_ids)]
                 /\ Len(w.nodes) = Len(w.node_ids)
                 /\ is_reversed(w) =>
                        w.node_ids = Reverse(src.node_ids) /\ w.nodes = Reverse(src.nodes)
                 /\ ~is_reversed(w) =>
                        w.node_ids = src.node_ids /\ w.nodes = src.nodes

\* the global flip was applied: one way was turned back to source order with
\* the flag false, another one is flagged reversed
C3_Witness ==
    /\ arranged
    /\ flip_applied
    /\ \E j \in 1..Len(ordered_ways) :
          "reversed" \in DOMAIN ordered_ways[j] /\ ~ordered_ways[j].reversed
    /\ \E j \in 1..Len(ordered_ways) : is_reversed(ordered_ways[j])

\* C19: in the arranged list the loops (start_node = end_node) are the last
\* entries, after every way that is not a loop, in the order of the input and
\* as they were given (not turned, without a reversed flag), whether or not
\* the global flip is applied.
C19_LoopPlacement ==
    arranged =>
        \E loops \in {loop_ways_of(raw_ways)} :
            /\ Len(loops) <= Len(ordered_ways)
            /\ SubSeq(ordered_ways, Len(ordered_ways) - Len(loops) + 1, Len(ordered_ways))
                  = loops
            /\ \A i \in 1..(Len(ordered_ways) - Len(loops)) : not_loop(ordered_ways[i])

\* the global flip was applied to a list with a loop that the input gives
\* before a way that is not a loop
C19_Witness ==
    /\ arranged
    /\ flip_applied
    /\ \E i, j \in 1..Len(raw_ways) :
          i < j /\ is_loop(raw_ways[i]) /\ not_loop(raw_ways[j])

\* C18: for every input list the call ends with a returned list: every
\* step of it (a step that leaves or has left the input) takes it nearer to
\* the return (remaining_steps, a natural number, decreases), and every
\* iteration of the main walk, of the chain collection and of the growth of
\* a chain marks exactly one more way as used.
C18_StitcherTerminates ==
    [][/\ stitch_pc' # "input" =>
             /\ remaining_steps' >= 0
             /\ remaining_steps' < remaining_steps
       /\ (/\ stitch_pc \in {"walk", "chains", "grow"}
           /\ stitch_pc' \in {"walk", "grow"}) =>
             /\ used_way_ids \subseteq used_way_ids'
             /\ Cardinality(used_way_ids') = Cardinality(used_way_ids) + 1]_stitch_vars

\* the call returned for ways without a degree-1 node and with a component
\* that the main walk does not reach
C18_Witness ==
    /\ arranged
    /\ route_ways_of(raw_ways) # <<>>
    /\ endpoints_of(route_ways_of(raw_ways)) = <<>>
    /\ chain_segments # <<>>
    /\ Len(ordered_ways) = Len(raw_ways)

\* ===================================================================
\* Route: build_route_line, find_location_on_route (locate_on_route.py,
\* RouteTracker) and locate_stops_on_route (osm_relation_ways.py)
\* ===================================================================

\* ---------------------------------------------------------------- bounds
\* coordinates are points <<lon, lat>> of a grid of 0.0005 degree steps at
\* the equator: <<0, 2>> is (0.0, 0.001)
GridMax == 2
MaxRoutePoints == 4
MaxStops == 2

Grid == (0..GridMax) \X (0..GridMax)

\* the vertices of the ways are on the 0.001 degree lattice, as in the
\* scenarios S1 to S4; positions and stops are anywhere on the grid
RouteGrid == {p \in Grid : p[1] % 2 = 0 /\ p[2] % 2 = 0}

\* ---- haversine_distance, in millimetres.  On this grid the great-circle
\* distance is the planar one times the length of a grid step,
\* r * radians(0.0005) = 55.597 m, to less than a millimetre.
EarthRadius == 6371000

GridStepMm == ((EarthRadius \div 200) * 31416) \div 18000

\* floor of the square root of n < 2^30, found digit by digit in base 32
isqrt(n) ==
    LET a == CHOOSE x \in 0..31 :
                (x * 1024) * (x * 1024) <= n /\ n < ((x + 1) * 1024) * ((x + 1) * 1024)
        b == CHOOSE y \in 0..31 :
                /\ (a * 1024 + y * 32) * (a * 1024 + y * 32) <= n
                /\ n < (a * 1024 + (y + 1) * 32) * (a * 1024 + (y + 1) * 32)
        c == CHOOSE z \in 0..31 :
                /\ (a * 1024 + b * 32 + z) * (a * 1024 + b * 32 + z) <= n
                /\ n < (a * 1024 + b * 32 + z + 1) * (a * 1024 + b * 32 + z + 1)
    IN a * 1024 + b * 32 + c

haversine_distance(coord1, coord2) ==
    LET dlon == coord2[1] - coord1[1]
        dlat == coord2[2] - coord1[2]
    IN (isqrt((dlat * dlat + dlon * dlon) * 1000000) * GridStepMm) \div 1000

\* ---- build_route_line
\* the points of a way that are appended: its first point is dropped when it
\* equals the last point collected so far
way_points_of(all_points, i, nodes) ==
    IF i > 1 /\ all_points # <<>> /\ nodes # <<>> /\ all_points[Len(all_points)] = nodes[1]
    THEN Tail(nodes)
    ELSE nodes

\* the sum of the distances between the successive points of a list
RECURSIVE segment_length_of(_, _)
segment_length_of(way_points, j) ==
    IF j <= 1 THEN 0
    ELSE segment_length_of(way_points, j - 1)
            + haversine_distance(way_points[j - 1], way_points[j])

\* all_points and total_distance after the first i ways
RECURSIVE collect_points(_, _)
collect_points(route, i) ==
    IF i = 0 THEN [all_points |-> <<>>, total_distance |-> 0]
    ELSE LET before == collect_points(route, i - 1)
             way_points == way_points_of(before.all_points, i, route[i].nodes)
         IN IF route[i].nodes = <<>> THEN before
            ELSE [all_points |-> before.all_points \o way_points,
                  total_distance |-> before.total_distance
                                       + segment_length_of(way_points, Len(way_points))]

\* consecutive equal points are collapsed
unique_points_of(valid_points) ==
    LET keep == SelectSeq([k \in 1..Len(valid_points) |-> k],
                          LAMBDA k : k = 1 \/ valid_points[k] # valid_points[k - 1])
    IN [m \in 1..Len(keep) |-> valid_points[keep[m]]]

\* the line and the length that build_route_line returns; it raises
\* ValueError for fewer than two points, and so does LineString for a single
\* point that is left
build_route_line(route) ==
    LET built == collect_points(route, Len(route))
        unique_points == unique_points_of(built.all_points)
    IN IF Len(built.all_points) < 2 \/ Len(unique_points) < 2
       THEN [raised |-> TRUE, route_line |-> <<>>, total_distance |-> built.total_distance]
       ELSE [raised |-> FALSE, route_line |-> unique_points,
             total_distance |-> built.total_distance]

\* ---- find_location_on_route
\* the position of the nearest point of segment a-b to p, as the fraction
\* num / den of the segment (segment.project(p, normalized=True))
segment_project(a, b, p) ==
    LET den == (b[1] - a[1]) * (b[1] - a[1]) + (b[2] - a[2]) * (b[2] - a[2])
        num == (p[1] - a[1]) * (b[1] - a[1]) + (p[2] - a[2]) * (b[2] - a[2])
    IN [num |-> Max(0, Min(num, den)), den |-> den]

\* the square of location_point.distance(p), p the nearest point of the
\* segment, as the fraction n / d
segment_distance(a, b, p) ==
    LET t == segment_project(a, b, p)
        vx == t.den * (p[1] - a[1]) - t.num * (b[1] - a[1])
        vy == t.den * (p[2] - a[2]) - t.num * (b[2] - a[2])
    IN [n |-> vx * vx + vy * vy, d |-> t.den * t.den]

dist_less(x, y) == x.n * y.d < y.n * x.d

\* the distance of p to segment i of the line
distance_to_segment(coords, i, p) == segment_distance(coords[i], coords[i + 1], p)

nearest_segment_keep_last(coords, p) ==
    CHOOSE i \in 1..(Len(coords) - 1) :
        \A j \in 1..(Len(coords) - 1) :
            /\ j < i => ~dist_less(distance_to_segment(coords, j, p),
                                   distance_to_segment(coords, i, p))
            /\ j > i => dist_less(distance_to_segment(coords, i, p),
                                  distance_to_segment(coords, j, p))

\* the segment the loop keeps: `dist < min_distance` replaces the kept
\* segment only by a strictly nearer one, so the first nearest segment wins
nearest_segment(coords, p) ==
    CHOOSE i \in 1..(Len(coords) - 1) :
        \A j \in 1..(Len(coords) - 1) :
            /\ j < i => dist_less(distance_to_segment(coords, i, p),
                                  distance_to_segment(coords, j, p))
            /\ j > i => ~dist_less(distance_to_segment(coords, j, p),
                                   distance_to_segment(coords, i, p))

\* total_distance when the loop reaches segment i: the lengths of the
\* segments before it (the arc length of vertex i)
total_distance_at(coords, i) == segment_length_of(coords, i)

find_location_on_route(line, loc) ==
    LET i == nearest_segment(line, loc)
        t == segment_project(line[i], line[i + 1], loc)
        segment_length == haversine_distance(line[i], line[i + 1])
    IN [segment |-> i,
        t_num |-> t.num,
        t_den |-> t.den,
        distance_from_start |->
            total_distance_at(line, i) + (t.num * segment_length) \div t.den]

\* ---- locate_stops_on_route
\* complete_route: the nodes of the first i ways, one after the other
RECURSIVE complete_route_of(_, _)
complete_route_of(ways, i) ==
    IF i = 0 THEN <<>> ELSE complete_route_of(ways, i - 1) \o ways[i].nodes

\* current_dist at every node of complete_route: a distance is added for
\* every node of a way but its first
RECURSIVE current_dist_of(_, _)
current_dist_of(ways, i) ==
    IF i = 0 THEN <<>>
    ELSE LET before == current_dist_of(ways, i - 1)
             base == IF before = <<>> THEN 0 ELSE before[Len(before)]
         IN before \o [j \in 1..Len(ways[i].nodes) |->
                          base + segment_length_of(ways[i].nodes, j)]

point_key(node) == ToString(node[1]) \o "," \o ToString(node[2])

\* distance_to_node[key]: the distance of the first node with that key
distance_to_node(ways, key) ==
    LET complete_route == complete_route_of(ways, Len(ways))
        first == CHOOSE i \in 1..Len(complete_route) :
                    /\ point_key(complete_route[i]) = key
                    /\ \A j \in 1..(i - 1) : point_key(complete_route[j]) # key
    IN current_dist_of(ways, Len(ways))[first]

\* the square of stop_point.distance(route_point_geom)
point_distance(a, b) ==
    (a[1] - b[1]) * (a[1] - b[1]) + (a[2] - b[2]) * (a[2] - b[2])

\* closest_idx: the first of the nearest nodes (`distance < min_distance`)
closest_idx(complete_route, position) ==
    CHOOSE i \in 1..Len(complete_route) :
        \A j \in 1..Len(complete_route) :
            /\ j < i => point_distance(position, complete_route[i])
                           < point_distance(position, complete_route[j])
            /\ j > i => point_distance(position, complete_route[i])
                           <= point_distance(position, complete_route[j])

stop_dist_from_start(ways, position) ==
    LET complete_route == complete_route_of(ways, Len(ways))
    IN distance_to_node(ways, point_key(complete_route[closest_idx(complete_route, position)]))

\* sorted(stop_nodes, key=dist_from_start): the sort is stable
\* mutant: the stops are left in the order of the input
sorted_by_dist_unsorted(stops) == stops

sorted_by_dist(stops) ==
    LET rank(i) == Cardinality({j \in 1..Len(stops) :
                       \/ stops[j].dist_from_start < stops[i].dist_from_start
                       \/ stops[j].dist_from_start = stops[i].dist_from_start /\ j < i})
    IN [k \in 1..Len(stops) |-> stops[CHOOSE i \in 1..Len(stops) : rank(i) = k - 1]]

locate_stops_on_route(ways, stops) ==
    LET located == [i \in 1..Len(stops) |->
                       [id |-> stops[i].id,
                        position |-> stops[i].position,
                        dist_from_start |-> stop_dist_from_start(ways, stops[i].position)]]
        sorted == sorted_by_dist(located)
    IN [i \in 1..Len(sorted) |->
           [id |-> sorted[i].id,
            position |-> sorted[i].position,
            dist_from_start |-> sorted[i].dist_from_start,
            distance_from_prev |->
                IF i > 1 THEN sorted[i].dist_from_start - sorted[i - 1].dist_from_start
                ELSE 0,
            distance_to_next |->
                IF i < Len(sorted)
                THEN sorted[i + 1].dist_from_start - sorted[i].dist_from_start
                ELSE 0]]

\* ---- the route component as a state machine: the stitched ways are
\* assembled point by point, the route is built, and then a position is
\* located on it or stops are indexed against it
RouteWay(id, nodes) == [id |-> id, nodes |-> nodes]

\* a stop as extract_ways_and_stops collects it: not located yet
StopNode(id, position) == [id |-> id, position |-> position, dist_from_start |-> 0]

RECURSIVE route_point_count(_, _)
route_point_count(ways, i) ==
    IF i = 0 THEN 0 ELSE route_point_count(ways, i - 1) + Len(ways[i].nodes)

RouteInit ==
    /\ RouteIdle
    /\ StitchIdle
    /\ StopsIdle
    /\ GpsIdle
    /\ LoopIdle
    /\ NavIdle
    /\ SummaryIdle
    /\ SegmentIdle

AddRouteWay ==
    /\ route_pc = "input"
    /\ route_point_count(route_data, Len(route_data)) + 2 <= MaxRoutePoints
    /\ \E a \in RouteGrid, b \in RouteGrid :
          route_data' = Append(route_data, RouteWay(Len(route_data) + 1, <<a, b>>))
    /\ UNCHANGED <<route_pc, route_line, total_route_length, location, location_info,
                   stop_nodes, sorted_stops>>
    /\ UNCHANGED other_than_route

ExtendRouteWay ==
    /\ route_pc = "input"
    /\ route_data # <<>>
    /\ route_point_count(route_data, Len(route_data)) + 1 <= MaxRoutePoints
    /\ \E c \in RouteGrid :
          route_data' = [route_data EXCEPT ![Len(route_data)].nodes = Append(@, c)]
    /\ UNCHANGED <<route_pc, route_line, total_route_length, location, location_info,
                   stop_nodes, sorted_stops>>
    /\ UNCHANGED other_than_route

\* build_route_line: the line and the length, or ValueError
BuildRoute ==
    /\ route_pc = "input"
    /\ \E built \in {build_route_line(route_data)} :
          /\ route_line' = built.route_line
          /\ total_route_length' = built.total_distance
          /\ route_pc' = IF built.raised THEN "error" ELSE "built"
    /\ UNCHANGED <<route_data, location, location_info, stop_nodes, sorted_stops>>
    /\ UNCHANGED other_than_route

\* find_location_on_route for a position of the grid
LocatePosition ==
    /\ route_pc = "built"
    /\ \E p \in Grid :
          /\ location' = p
          /\ location_info' = <<find_location_on_route(route_line, p)>>
    /\ route_pc' = "located"
    /\ UNCHANGED <<route_data, route_line, total_route_length, stop_nodes, sorted_stops>>
    /\ UNCHANGED other_than_route

\* locate_stops_on_route for stops at positions of the grid
LocateStops ==
    /\ route_pc = "built"
    /\ \E n \in 1..MaxStops :
          \E positions \in [1..n -> Grid] :
             \E stops \in {[i \in 1..n |-> StopNode(i, positions[i])]} :
                /\ stop_nodes' = stops
                /\ sorted_stops' = locate_stops_on_route(route_data, stops)
    /\ route_pc' = "indexed"
    /\ UNCHANGED <<route_data, route_line, total_route_length, location, location_info>>
    /\ UNCHANGED other_than_route

RouteNext ==
    \/ AddRouteWay
    \/ ExtendRouteWay
    \/ BuildRoute
    \/ LocatePosition

\* a route is built and positions are located on it
SpecRoute == RouteInit /\ [][RouteNext]_vars

StopIndexNext ==
    \/ AddRouteWay
    \/ ExtendRouteWay
    \/ BuildRoute
    \/ LocateStops

\* a route is built and stops are indexed against it
SpecStopIndex == RouteInit /\ [][StopIndexNext]_vars

route_built == route_pc \in {"built", "located", "indexed"}

\* C4: the length computed when the route is built is the arc length of the
\* last vertex of its line (the sum over all successive vertices, the pairs
\* that join two ways included), and no located position lies farther from
\* the start than that length.
C4_RouteLengthIdentity ==
    /\ route_built =>
          total_route_length = total_distance_at(route_line, Len(route_line))
    /\ route_pc = "located" =>
          location_info[1].distance_from_start <= total_route_length

\* C5: every indexed stop is as far from the start as its projection on the
\* route; the stops of scenario S4 on the route of S2 get 55.597 m and
\* 166.792 m.
C5_StopIndexUsesProjection ==
    route_pc = "indexed" =>
        /\ \A i \in 1..Len(sorted_stops) :
              sorted_stops[i].dist_from_start
                 = find_location_on_route(route_line,
                                          sorted_stops[i].position).distance_from_start
        /\ (/\ route_data = <<RouteWay(1, <<<<0, 0>>, <<0, 2>>>>),
                              RouteWay(2, <<<<0, 2>>, <<2, 2>>>>)>>
            /\ stop_nodes = <<StopNode(1, <<0, 1>>), StopNode(2, <<1, 2>>)>>)
           => /\ sorted_stops[1].dist_from_start \in 55596..55598
              /\ sorted_stops[2].dist_from_start \in 166790..166793

\* C7 as stated: the position located for a vertex of the line is the arc
\* length of that vertex, whether or not the line visits its coordinate
\* more than once.
C7_ProjectionLengthIdentity ==
    route_pc = "located" =>
        \A k \in 1..Len(route_line) :
            location = route_line[k] =>
                location_info[1].distance_from_start = total_distance_at(route_line, k)

\* no segment that ends before vertex k passes through the coordinate of
\* vertex k
first_visit(line, k) ==
    \A i \in 1..(k - 2) : distance_to_segment(line, i, line[k]).n # 0

\* C7 amended: the position located for a vertex is the arc length of that
\* vertex when no earlier segment passes through its coordinate; in every
\* case it is the arc length of the first visit, which is no larger.
C7_FirstVisitLengthIdentity ==
    route_pc = "located" =>
        \A k \in 1..Len(route_line) :
            location = route_line[k] =>
                /\ location_info[1].distance_from_start <= total_distance_at(route_line, k)
                /\ first_visit(route_line, k) =>
                      location_info[1].distance_from_start
                         = total_distance_at(route_line, k)

\* the last vertex of a line of three segments that visits another
\* coordinate twice is located at its arc length
C7_Witness ==
    /\ route_pc = "located"
    /\ Len(route_line) = 4
    /\ location = route_line[4]
    /\ route_line[3] = route_line[1]
    /\ first_visit(route_line, 4)
    /\ location_info[1].distance_from_start = total_distance_at(route_line, 4)

\* ===================================================================
\* Stop query: find_nearest_stops (locate_on_route.py, RouteTracker)
\* ===================================================================

\* ---------------------------------------------------------------- bounds
\* distances of stops and of the cursor are multiples of 0.5 m
MaxStopsData == 2
MaxDistSteps == 4

\* the tolerance of the previous stop, 1.0 m
StopTolerance == 1000

Distances == {k * (StopTolerance \div 2) : k \in 0..MaxDistSteps}

\* ---- route_line.project(stop_point): the planar length along the line, in
\* degrees, of the nearest point of the line.  The code uses this number as
\* metres; lengths are again in millimetres here, and a grid step is
\* 0.0005 units long.
planar_length(a, b) == isqrt(point_distance(a, b) * 1000000)

RECURSIVE planar_length_before(_, _)
planar_length_before(coords, i) ==
    IF i <= 1 THEN 0
    ELSE planar_length_before(coords, i - 1) + planar_length(coords[i - 1], coords[i])

line_project(line, p) ==
    LET i == nearest_segment(line, p)
        t == segment_project(line[i], line[i + 1], p)
    IN (planar_length_before(line, i)
          + (t.num * planar_length(line[i], line[i + 1])) \div t.den) \div 2000

\* ---- find_nearest_stops
has_distance_info(stops) ==
    \A i \in 1..Len(stops) : "dist_from_start" \in DOMAIN stops[i]

\* stop_distance of one stop
stop_distance_of(line, total_length, stops, stop) ==
    IF has_distance_info(stops) /\ "dist_from_start" \in DOMAIN stop
    THEN stop.dist_from_start
    ELSE LET projected == line_project(line, stop.position)
         IN IF projected < 100 \/ projected * 10 > total_length * 11
            THEN IF "distance_from_start" \in DOMAIN stop THEN stop.distance_from_start
                 ELSE IF "dist" \in DOMAIN stop THEN stop.dist
                 ELSE projected
            ELSE projected

stops_with_distance_of(line, total_length, stops) ==
    [i \in 1..Len(stops) |->
        [id |-> stops[i].id,
         position |-> stops[i].position,
         distance_from_start |-> stop_distance_of(line, total_length, stops, stops[i])]]

\* sorted(stops_with_distance, key=distance_from_start): the sort is stable
sorted_by_distance(stops) ==
    LET rank(i) == Cardinality({j \in 1..Len(stops) :
                       \/ stops[j].distance_from_start < stops[i].distance_from_start
                       \/ /\ stops[j].distance_from_start = stops[i].distance_from_start
                          /\ j < i})
    IN [k \in 1..Len(stops) |-> stops[CHOOSE i \in 1..Len(stops) : rank(i) = k - 1]]

abs(x) == IF x < 0 THEN 0 - x ELSE x

is_previous(stop_distance, cursor) ==
    stop_distance <= cursor \/ abs(stop_distance - cursor) < StopTolerance

\* mutant: a stop at the cursor counts as the next stop
is_next_or_here(stop_distance, cursor) == stop_distance >= cursor

is_next(stop_distance, cursor) == stop_distance > cursor

\* the reverse scan: the last stop that is_previous
previous_stop_of(sorted, cursor) ==
    LET found == {i \in 1..Len(sorted) : is_previous(sorted[i].distance_from_start, cursor)}
    IN IF found = {} THEN <<>>
       ELSE LET i == CHOOSE x \in found : \A y \in found : y <= x
            IN <<[id |-> sorted[i].id,
                  position |-> sorted[i].position,
                  distance_from_start |-> sorted[i].distance_from_start,
                  distance_to_current |-> cursor - sorted[i].distance_from_start]>>

\* the forward scan: the first stop that is_next
next_stop_of(sorted, cursor) ==
    LET found == {i \in 1..Len(sorted) : is_next(sorted[i].distance_from_start, cursor)}
    IN IF found = {} THEN <<>>
       ELSE LET i == CHOOSE x \in found : \A y \in found : x <= y
            IN <<[id |-> sorted[i].id,
                  position |-> sorted[i].position,
                  distance_from_start |-> sorted[i].distance_from_start,
                  distance_from_current |-> sorted[i].distance_from_start - cursor]>>

\* None is the empty sequence, a stop a sequence of one record
find_nearest_stops(line, total_length, stops, cursor) ==
    IF stops = <<>> THEN [previous_stop |-> <<>>, next_stop |-> <<>>]
    ELSE LET sorted == sorted_by_distance(stops_with_distance_of(line, total_length, stops))
         IN [previous_stop |-> previous_stop_of(sorted, cursor),
             next_stop |-> next_stop_of(sorted, cursor)]

\* ---- the stop query as a state machine: a tracker holds the route of
\* scenario S1 or S2; stops are loaded, with or without a distance from the
\* start under one of the keys the code reads, and the stops around a cursor
\* distance are asked for
ScenarioRoutes ==
    {<<RouteWay(1, <<<<0, 0>>, <<0, 2>>>>)>>,
     <<RouteWay(1, <<<<0, 0>>, <<0, 2>>>>), RouteWay(2, <<<<0, 2>>, <<2, 2>>>>)>>}

\* the stops are at the positions of scenario S4, in turn
StopPosition(id) == IF id % 2 = 1 THEN <<0, 1>> ELSE <<1, 2>>

StopRecords(id) ==
    {[id |-> id, position |-> StopPosition(id)]}
       \cup {[id |-> id, position |-> StopPosition(id), dist_from_start |-> v] :
               v \in Distances}
       \cup {[id |-> id, position |-> StopPosition(id), distance_from_start |-> v] :
               v \in Distances}
       \cup {[id |-> id, position |-> StopPosition(id), dist |-> v] : v \in Distances}

StopsInit ==
    /\ StitchIdle
    /\ StopsIdle
    /\ GpsIdle
    /\ LoopIdle
    /\ NavIdle
    /\ SummaryIdle
    /\ SegmentIdle
    /\ route_data \in ScenarioRoutes
    /\ route_pc = "built"
    /\ route_line = build_route_line(route_data).route_line
    /\ total_route_length = build_route_line(route_data).total_distance
    /\ location = <<>>
    /\ location_info = <<>>
    /\ stop_nodes = <<>>
    /\ sorted_stops = <<>>

AddStopData ==
    /\ stops_pc = "input"
    /\ Len(stops_data) < MaxStopsData
    /\ \E stop \in StopRecords(Len(stops_data) + 1) : stops_data' = Append(stops_data, stop)
    /\ UNCHANGED <<stops_pc, current_distance, previous_stop, next_stop>>
    /\ UNCHANGED other_than_stops

FindNearestStops ==
    /\ stops_pc = "input"
    /\ \E cursor \in Distances :
          \E found \in {find_nearest_stops(route_line, total_route_length, stops_data, cursor)} :
             /\ current_distance' = cursor
             /\ previous_stop' = found.previous_stop
             /\ next_stop' = found.next_stop
    /\ stops_pc' = "queried"
    /\ UNCHANGED stops_data
    /\ UNCHANGED other_than_stops

StopsNext ==
    \/ AddStopData
    \/ FindNearestStops

SpecStops == StopsInit /\ [][StopsNext]_vars

C13_PersistedDistanceTrusted ==
    stops_pc = "queried" =>
        \A found \in {previous_stop, next_stop} \ {<<>>} :
            "dist_from_start" \in DOMAIN stops_data[found[1].id] =>
                found[1].distance_from_start
                    = stops_data[found[1].id].dist_from_start

\* ===================================================================
\* Maneuver extractor: generate_gps_directions (osm_relation_ways.py),
\* RouteTracker.generate_navigation_directions
\* ===================================================================

\* ---------------------------------------------------------------- bounds
MaxLegs == 3
MaxLegSteps == 24

\* the parameters of the turn scan
step_size == 10

lookback == 10

lookahead == 20

min_turn_threshold == 40

\* ---- calculate_bearing and bearing_change.  On the grid the bearing from
\* point1 to point2 is atan2 of the vector <<dlon, dlat>> (0 for equal
\* points: atan2(0, 0)), clockwise from north.  The change of bearing is
\* the angle from the first vector to the second; it is compared with a
\* threshold through the cosine, in thousandths.
bearing_vector(point1, point2) ==
    IF point1 = point2 THEN <<0, 1>>
    ELSE <<point2[1] - point1[1], point2[2] - point1[2]>>

dot(u, v) == u[1] * v[1] + u[2] * v[2]

cross(u, v) == u[1] * v[2] - u[2] * v[1]

\* 1000 * cos(degrees)^2 for the thresholds of the scan
cos_squared(degrees) ==
    CASE degrees = 40 -> 587
      [] degrees = 60 -> 250
      [] degrees = 100 -> 30

\* abs(bearing_change) >= degrees (degrees < 90)
change_at_least(pre, post, degrees) ==
    \/ dot(pre, post) <= 0
    \/ 1000 * dot(pre, post) * dot(pre, post)
          <= cos_squared(degrees) * dot(pre, pre) * dot(post, post)

\* abs(bearing_change) > degrees
change_above(pre, post, degrees) ==
    IF degrees < 90
    THEN \/ dot(pre, post) <= 0
         \/ 1000 * dot(pre, post) * dot(pre, post)
               < cos_squared(degrees) * dot(pre, pre) * dot(post, post)
    ELSE /\ dot(pre, post) < 0
         /\ 1000 * dot(pre, post) * dot(pre, post)
               > cos_squared(degrees) * dot(pre, pre) * dot(post, post)

\* the side of the turn: bearing_change > 0 when the route bends clockwise.
\* For an exact reversal the change is 180 degrees up to the rounding and
\* the curvature that the grid leaves out, and either sign can come out.
turn_directions(pre, post) ==
    IF cross(pre, post) = 0 /\ dot(pre, post) < 0 THEN {"right", "left"}
    ELSE IF cross(pre, post) < 0 THEN {"right"}
    ELSE {"left"}

\* ---- generate_gps_directions
\* route_points: the nodes of the first way, the nodes but the first of
\* every other way
RECURSIVE route_points_of(_, _)
route_points_of(ways, i) ==
    IF i = 0 THEN <<>>
    ELSE IF i = 1 THEN ways[1].nodes
    ELSE route_points_of(ways, i - 1) \o Tail(ways[i].nodes)

\* the turn recorded at index i of the scan (indices from 0, as in the code)
turn_point(points, i, turn_direction) ==
    LET pre == bearing_vector(points[i - lookback + 1], points[i + 1])
        post == bearing_vector(points[i + 1], points[i + lookahead + 1])
    IN [type |-> "turn",
        index |-> i,
        distance |-> segment_length_of(points, i + 1),
        turn_direction |-> turn_direction,
        turn_intensity |-> IF change_above(pre, post, 100) THEN "sharp"
                           ELSE IF change_above(pre, post, 60) THEN "normal"
                           ELSE "slight"]

scan_directions(points, i) ==
    turn_directions(bearing_vector(points[i - lookback + 1], points[i + 1]),
                    bearing_vector(points[i + 1], points[i + lookahead + 1]))

is_turn(points, i) ==
    change_at_least(bearing_vector(points[i - lookback + 1], points[i + 1]),
                    bearing_vector(points[i + 1], points[i + lookahead + 1]),
                    min_turn_threshold)

\* significant_points.sort(key=distance), then distance_from_last
sorted_points(points) ==
    LET rank(i) == Cardinality({j \in 1..Len(points) :
                       \/ points[j].distance < points[i].distance
                       \/ points[j].distance = points[i].distance /\ j < i})
        sorted == [k \in 1..Len(points) |->
                      points[CHOOSE i \in 1..Len(points) : rank(i) = k - 1]]
    IN [k \in 1..Len(sorted) |->
           [type |-> sorted[k].type,
            index |-> sorted[k].index,
            distance |-> sorted[k].distance,
            turn_direction |-> sorted[k].turn_direction,
            turn_intensity |-> sorted[k].turn_intensity,
            distance_from_last |->
                IF k > 1 THEN sorted[k].distance - sorted[k - 1].distance
                ELSE sorted[k].distance]]

\* ---- the extractor as a state machine.  The ways are straight legs that
\* join end to start: a leg runs north, east, south or west from the end of
\* the leg before it (the first from <<0, 0>>), in steps of one or two grid
\* steps.  Every iteration of the turn scan is one step.
Directions == {<<0, 1>>, <<1, 0>>, <<0, -1>>, <<-1, 0>>}

LegSteps == {1, MaxLegSteps \div 2, MaxLegSteps}

LegStart(ways) ==
    IF ways = <<>> THEN <<0, 0>>
    ELSE ways[Len(ways)].nodes[Len(ways[Len(ways)].nodes)]

LegWay(id, start, direction, steps, stride) ==
    [id |-> id,
     nodes |-> [k \in 1..(steps + 1) |->
                  <<start[1] + (k - 1) * stride * direction[1],
                    start[2] + (k - 1) * stride * direction[2]>>]]

GpsInit ==
    /\ GpsIdle
    /\ StitchIdle
    /\ RouteIdle
    /\ StopsIdle
    /\ LoopIdle
    /\ NavIdle
    /\ SummaryIdle
    /\ SegmentIdle

AddLegWay ==
    /\ gps_pc = "input"
    /\ Len(gps_ways) < MaxLegs
    /\ \E direction \in Directions, steps \in LegSteps, stride \in {1, 2} :
          gps_ways' = Append(gps_ways,
                             LegWay(Len(gps_ways) + 1, LegStart(gps_ways),
                                    direction, steps, stride))
    /\ UNCHANGED <<gps_pc, route_points, scan_i, turn_points, significant_points>>
    /\ UNCHANGED other_than_gps

\* lines 660-735: without ways there is nothing to do; otherwise the points
\* of the route are collected and the scan starts at index lookback
StartDirections ==
    /\ gps_pc = "input"
    /\ IF gps_ways = <<>>
       THEN /\ gps_pc' = "done"
            /\ UNCHANGED <<route_points, scan_i>>
       ELSE /\ route_points' = route_points_of(gps_ways, Len(gps_ways))
            /\ scan_i' = lookback
            /\ gps_pc' = "scan"
    /\ UNCHANGED <<gps_ways, turn_points, significant_points>>
    /\ UNCHANGED other_than_gps

\* lines 738-783: one iteration of the scan
ScanStep ==
    /\ gps_pc = "scan"
    /\ scan_i < Len(route_points) - lookahead
    /\ IF is_turn(route_points, scan_i)
       THEN /\ \E turn_direction \in scan_directions(route_points, scan_i) :
                  turn_points' = Append(turn_points,
                                        turn_point(route_points, scan_i, turn_direction))
            /\ scan_i' = scan_i + lookahead
       ELSE /\ scan_i' = scan_i + step_size
            /\ UNCHANGED turn_points
    /\ UNCHANGED <<gps_ways, gps_pc, route_points, significant_points>>
    /\ UNCHANGED other_than_gps

\* lines 785-851, without stops: the turns are the maneuvers
FinishDirections ==
    /\ gps_pc = "scan"
    /\ ~(scan_i < Len(route_points) - lookahead)
    /\ significant_points' = sorted_points(turn_points)
    /\ gps_pc' = "done"
    /\ UNCHANGED <<gps_ways, route_points, scan_i, turn_points>>
    /\ UNCHANGED other_than_gps

GpsNext ==
    \/ AddLegWay
    \/ StartDirections
    \/ ScanStep
    \/ FinishDirections

SpecGps == GpsInit /\ [][GpsNext]_vars

\* C8: for the L-shaped route of scenario S2 (north for 0.001 degree, then
\* east for 0.001 degree, three points) the extractor finds exactly one
\* turn, to the right, at the arc length of the bend.
C8_TurnOnShortRoute ==
    (/\ gps_pc = "done"
     /\ gps_ways = <<LegWay(1, <<0, 0>>, <<0, 1>>, 1, 2),
                     LegWay(2, <<0, 2>>, <<1, 0>>, 1, 2)>>) =>
        /\ Len(significant_points) = 1
        /\ significant_points[1].type = "turn"
        /\ significant_points[1].turn_direction = "right"
        /\ significant_points[1].distance = segment_length_of(route_points, 2)

\* ============================================================== fix loop
\* WebSocketTracker of route_websocket_tracker.py.  An action runs from one
\* suspension point of start_tracking (connect, recv, sleep) to the next;
\* the Tracker behind it is a function of the location that either returns
\* a result or raises.

\* ---------------------------------------------------------------- bounds
MaxFixes == 3
MaxTime == 2

\* seconds, the default of the constructor
update_interval == 1

vehicle_id == "1"

\* dict.get(key, default)
get(d, key, default) == IF key \in DOMAIN d THEN d[key] ELSE default

\* the vehicle records of the stream: one that is not an object, one of
\* another vehicle, one without a number, and records of the tracked
\* vehicle with both coordinates, with a coordinate out of range and with
\* coordinates missing
Vehicles ==
    {[dict |-> FALSE],
     [dict |-> TRUE, veh_number |-> 2, latitude |-> 1, longitude |-> 0],
     [dict |-> TRUE, latitude |-> 0, longitude |-> 0],
     [dict |-> TRUE, veh_number |-> 1, latitude |-> 0, longitude |-> 0],
     [dict |-> TRUE, veh_number |-> 1, latitude |-> 1, longitude |-> 0],
     [dict |-> TRUE, veh_number |-> 1, latitude |-> 91, longitude |-> 0],
     [dict |-> TRUE, veh_number |-> 1, latitude |-> 0, longitude |-> 181],
     [dict |-> TRUE, veh_number |-> 1, latitude |-> 1],
     [dict |-> TRUE, veh_number |-> 1]}

\* the data of a vehicles_info envelope: no record, one record, or two
\* records where the tracked vehicle comes second, or first, or twice, or
\* next to an element that is not an object
VehicleLists ==
    {<<>>}
    \cup {<<v>> : v \in Vehicles}
    \cup {<<v, w>> :
            v \in {[dict |-> FALSE],
                   [dict |-> TRUE, veh_number |-> 2, latitude |-> 1, longitude |-> 0],
                   [dict |-> TRUE, veh_number |-> 1, latitude |-> 1, longitude |-> 0]},
            w \in {[dict |-> FALSE],
                   [dict |-> TRUE, veh_number |-> 1, latitude |-> 0, longitude |-> 0],
                   [dict |-> TRUE, veh_number |-> 1, latitude |-> 91, longitude |-> 0]}}

\* what recv returns: text that is not JSON, JSON that is not an object,
\* objects without topic or data, with another topic, with data that is
\* not a list, and vehicles_info envelopes
Messages ==
    {[kind |-> "garbage"],
     [kind |-> "array"],
     [kind |-> "object"],
     [kind |-> "object", topic |-> "vehicles_info"],
     [kind |-> "object", topic |-> "vehicles_info", data |-> [list |-> FALSE]],
     [kind |-> "object", topic |-> "other",
      data |-> [list |-> TRUE,
                items |-> <<[dict |-> TRUE, veh_number |-> 1,
                             latitude |-> 0, longitude |-> 0]>>]]}
    \cup {[kind |-> "object", topic |-> "vehicles_info",
           data |-> [list |-> TRUE, items |-> l]] : l \in VehicleLists}

\* what awaiting recv ends with: a message, ConnectionClosed or another
\* exception
RecvOutcomes == Messages \cup {[kind |-> "closed"], [kind |-> "failure"]}

\* json.loads, line 1199
json_loads(message) ==
    IF message.kind = "garbage"
    THEN [raised |-> TRUE]
    ELSE [raised |-> FALSE, data |-> message]

\* str(vehicle.get("veh_number", "")), line 1002
veh_number_str(vehicle) ==
    IF "veh_number" \in DOMAIN vehicle THEN ToString(vehicle.veh_number) ELSE ""

\* lines 1001-1004: the first vehicle with the number; vehicle.get raises
\* on an element that is not an object
RECURSIVE first_vehicle(_, _)
first_vehicle(vehicles, i) ==
    IF i > Len(vehicles) THEN [raised |-> FALSE, vehicle |-> <<>>]
    ELSE IF ~vehicles[i].dict THEN [raised |-> TRUE]
    ELSE IF veh_number_str(vehicles[i]) = vehicle_id
         THEN [raised |-> FALSE, vehicle |-> <<vehicles[i]>>]
         ELSE first_vehicle(vehicles, i + 1)

find_vehicle_in_data(message_data) ==
    IF message_data.kind # "object"
    THEN [raised |-> FALSE, vehicle |-> <<>>]
    ELSE IF ~("topic" \in DOMAIN message_data /\ "data" \in DOMAIN message_data)
    THEN [raised |-> FALSE, vehicle |-> <<>>]
    ELSE IF message_data.topic # "vehicles_info"
    THEN [raised |-> FALSE, vehicle |-> <<>>]
    ELSE IF ~message_data.data.list
    THEN [raised |-> FALSE, vehicle |-> <<>>]
    ELSE first_vehicle(message_data.data.items, 1)

\* None is <<>>, a position is <<[latitude, longitude]>>
extract_location(vehicle_data) ==
    LET latitude == get(vehicle_data, "latitude", 0)
        longitude == get(vehicle_data, "longitude", 0)
    IN  IF ~(-90 <= latitude /\ latitude <= 90)
           \/ ~(-180 <= longitude /\ longitude <= 180)
        THEN <<>>
        ELSE <<[latitude |-> latitude, longitude |-> longitude]>>

\* the locations (longitude, latitude) the stream can deliver
Locations ==
    {<<p[1].longitude, p[1].latitude>> :
        p \in {extract_location(v) : v \in {w \in Vehicles : w.dict}} \ {<<>>}}

\* RouteTracker.locate followed by pretty_print_position: the result for
\* the location (longitude first), or an exception
locate(lat, lon) ==
    [raised |-> <<lon, lat>> \in raising_locations, location |-> <<lon, lat>>]

\* lines 1152-1154
is_new_position(position) ==
    \/ last_position = <<>>
    \/ position.latitude # last_position[1].latitude
    \/ position.longitude # last_position[1].longitude

should_update_on_change_only(position) ==
    is_new_position(position) \/ last_update_time = <<>>

\* line 1157
should_update(position) ==
    \/ is_new_position(position)
    \/ last_update_time = <<>>
    \/ now - last_update_time[1] >= update_interval

\* mutant: the caches are written before the Tracker is called
handle_position_update_caching_first(position) ==
    LET invoked == should_update(position)
        result == locate(position.latitude, position.longitude)
        entry == [latitude |-> position.latitude,
                  longitude |-> position.longitude,
                  time |-> now,
                  invoked |-> invoked,
                  raised |-> invoked /\ result.raised]
    IN  [last_position |-> IF invoked THEN <<position>> ELSE last_position,
         last_result |-> IF invoked /\ ~result.raised THEN <<result>> ELSE last_result,
         last_update_time |-> IF invoked THEN <<now>> ELSE last_update_time,
         fix_log |-> Append(fix_log, entry)]

\* the caches and the history after the handler has run on a position
handle_position_update(position) ==
    LET invoked == should_update(position)
        result == locate(position.latitude, position.longitude)
        delivered == invoked /\ ~result.raised
        entry == [latitude |-> position.latitude,
                  longitude |-> position.longitude,
                  time |-> now,
                  invoked |-> invoked,
                  raised |-> invoked /\ result.raised]
    IN  [last_position |-> IF delivered THEN <<position>> ELSE last_position,
         last_result |-> IF delivered THEN <<result>> ELSE last_result,
         last_update_time |-> IF delivered THEN <<now>> ELSE last_update_time,
         fix_log |-> Append(fix_log, entry)]

\* line 1192: the test of the loop
while_running == IF running THEN "recv" ELSE "returned"

unchanged_caches ==
    [last_position |-> last_position,
     last_result |-> last_result,
     last_update_time |-> last_update_time,
     fix_log |-> fix_log]

\* lines 1193-1225: one pass of the loop body on what recv ended with, up
\* to the next suspension point
loop_body(outcome) ==
    IF outcome.kind = "closed"
    THEN [loop_pc |-> "returned", caches |-> unchanged_caches]
    ELSE IF outcome.kind = "failure"
    THEN [loop_pc |-> "sleep", caches |-> unchanged_caches]
    ELSE
        LET parsed == json_loads(outcome)
            found == find_vehicle_in_data(parsed.data)
            position == extract_location(found.vehicle[1])
        IN  IF parsed.raised
            THEN [loop_pc |-> while_running, caches |-> unchanged_caches]
            ELSE IF found.raised
            THEN [loop_pc |-> "sleep", caches |-> unchanged_caches]
            ELSE IF found.vehicle = <<>>
            THEN [loop_pc |-> while_running, caches |-> unchanged_caches]
            ELSE IF position = <<>>
            THEN [loop_pc |-> while_running, caches |-> unchanged_caches]
            ELSE [loop_pc |-> while_running,
                  caches |-> handle_position_update(position[1])]

\* what is remembered of the outcome of a recv: its kind and the record
\* of the tracked vehicle found in it, if any
received_of(outcome) ==
    [kind |-> outcome.kind,
     vehicle |-> IF outcome.kind \in {"closed", "failure", "garbage"}
                 THEN <<>>
                 ELSE IF find_vehicle_in_data(outcome).raised
                 THEN <<>>
                 ELSE find_vehicle_in_data(outcome).vehicle]

LoopInit ==
    /\ StitchIdle
    /\ RouteIdle
    /\ StopsIdle
    /\ GpsIdle
    /\ NavIdle
    /\ SummaryIdle
    /\ SegmentIdle
    /\ running = FALSE
    /\ loop_pc = "constructed"
    /\ last_position = <<>>
    /\ last_result = <<>>
    /\ last_update_time = <<>>
    /\ now = 0
    /\ raising_locations \in SUBSET Locations
    /\ fix_log = <<>>
    /\ received = nothing_received

\* lines 1178-1191, up to the connect
StartTracking ==
    /\ loop_pc \in {"constructed", "returned"}
    /\ running' = TRUE
    /\ loop_pc' = "connect"
    /\ received' = nothing_received
    /\ UNCHANGED <<last_position, last_result, last_update_time, now,
                   raising_locations, fix_log>>
    /\ UNCHANGED other_than_loop

\* lines 1190-1192 and 1226-1227: the handshake succeeds and the loop is
\* entered, or it fails and start_tracking returns
Connect ==
    /\ loop_pc = "connect"
    /\ \E connected \in BOOLEAN :
          loop_pc' = IF connected THEN while_running ELSE "returned"
    /\ UNCHANGED <<running, last_position, last_result, last_update_time, now,
                   raising_locations, fix_log, received>>
    /\ UNCHANGED other_than_loop

Receive ==
    /\ loop_pc = "recv"
    /\ \E outcome \in RecvOutcomes :
          LET after == loop_body(outcome)
          IN  /\ Len(after.caches.fix_log) <= MaxFixes
              /\ loop_pc' = after.loop_pc
              /\ last_position' = after.caches.last_position
              /\ last_result' = after.caches.last_result
              /\ last_update_time' = after.caches.last_update_time
              /\ fix_log' = after.caches.fix_log
              /\ received' = received_of(outcome)
    /\ UNCHANGED <<running, now, raising_locations>>
    /\ UNCHANGED other_than_loop

\* line 1225: asyncio.sleep(1) ends a second later, then the test of the loop
WakeUp ==
    /\ loop_pc = "sleep"
    /\ now < MaxTime
    /\ now' = now + 1
    /\ loop_pc' = while_running
    /\ UNCHANGED <<running, last_position, last_result, last_update_time,
                   raising_locations, fix_log, received>>
    /\ UNCHANGED other_than_loop

\* lines 1229-1235
StopTracking ==
    /\ running' = FALSE
    /\ UNCHANGED <<loop_pc, last_position, last_result, last_update_time, now,
                   raising_locations, fix_log, received>>
    /\ UNCHANGED other_than_loop

\* time passes while the loop is suspended
Tick ==
    /\ now < MaxTime
    /\ now' = now + 1
    /\ UNCHANGED <<running, loop_pc, last_position, last_result,
                   last_update_time, raising_locations, fix_log, received>>
    /\ UNCHANGED other_than_loop

LoopNext ==
    \/ StartTracking
    \/ Connect
    \/ Receive
    \/ WakeUp
    \/ StopTracking
    \/ Tick

SpecLoop == LoopInit /\ [][LoopNext]_vars

fix_location(k) == <<fix_log[k].latitude, fix_log[k].longitude>>

invocations_before(k) == {j \in 1..(k - 1) : fix_log[j].invoked}

deliveries_before(k) ==
    {j \in 1..(k - 1) : fix_log[j].invoked /\ ~fix_log[j].raised}

last_of(S) == CHOOSE j \in S : \A i \in S : i <= j

\* C9: the Tracker is invoked for an accepted fix if and only if the fix is
\* the first one, or its coordinates differ from those of the fix before
\* it, or at least update_interval has passed since the last invocation of
\* the Tracker.
C9_ChangeDetection ==
    \A k \in 1..Len(fix_log) :
        fix_log[k].invoked <=>
            \/ k = 1
            \/ fix_location(k) # fix_location(k - 1)
            \/ invocations_before(k) = {}
            \/ fix_log[k].time - fix_log[last_of(invocations_before(k))].time
                   >= update_interval

\* C9 (amended): the Tracker is invoked for an accepted fix if and only if
\* no earlier fix has been located and delivered, or the coordinates differ
\* from those of the last fix that was, or at least update_interval has
\* passed since that fix.
C9_ChangeDetectionSinceDelivery ==
    \A k \in 1..Len(fix_log) :
        fix_log[k].invoked <=>
            \/ deliveries_before(k) = {}
            \/ fix_location(k) # fix_location(last_of(deliveries_before(k)))
            \/ fix_log[k].time - fix_log[last_of(deliveries_before(k))].time
                   >= update_interval

\* a fix on which the Tracker raised, then a fix that was delivered, then a
\* fix with the same coordinates that was skipped
C9_Witness ==
    \E j \in 1..Len(fix_log) : \E k \in 1..Len(fix_log) :
        /\ j < k
        /\ fix_log[j].raised
        /\ ~fix_log[k].invoked
        /\ fix_location(k) = fix_location(k - 1)

\* C10: once stop_tracking has been called while the loop is suspended at
\* recv, no step of the loop hands a fix to the Tracker: the history gains
\* no invocation.
C10_NoInvocationAfterStop ==
    [][(loop_pc = "recv" /\ ~running) =>
          \/ fix_log' = fix_log
          \/ ~fix_log'[Len(fix_log')].invoked]_vars

\* C11: after a recv that ended with a transport close or with an I/O
\* failure the loop has left the receive loop (start_tracking has
\* returned), whereas after a message that is not JSON the loop is back at
\* recv, unless stop_tracking was called.
C11_TransportFailureLeavesLoop ==
    /\ received.kind \in {"closed", "failure"} => loop_pc = "returned"
    /\ received.kind = "garbage" =>
          \/ loop_pc = "recv"
          \/ loop_pc = "returned" /\ ~running

\* C12: a step of the loop hands a fix to the Tracker only if the record
\* of the tracked vehicle carries a latitude field within [-90, 90] and a
\* longitude field within [-180, 180].
C12_FixValidation ==
    [][(/\ Len(fix_log') > Len(fix_log)
        /\ fix_log'[Len(fix_log')].invoked) =>
          /\ received'.vehicle # <<>>
          /\ "latitude" \in DOMAIN received'.vehicle[1]
          /\ "longitude" \in DOMAIN received'.vehicle[1]
          /\ -90 <= received'.vehicle[1].latitude
          /\ received'.vehicle[1].latitude <= 90
          /\ -180 <= received'.vehicle[1].longitude
          /\ received'.vehicle[1].longitude <= 180]_vars

\* ===================================================================
\* RouteTracker (route_websocket_tracker.py): the navigation hints on top
\* of the route, the projection and the stop query.  Lengths are in
\* millimetres.
\* ===================================================================

\* ---------------------------------------------------------------- bounds
MaxTrackerStops == 3

\* 50 m: a first stop nearer to the start, a last stop nearer to the end
\* of the route are no maneuvers
EndStopRange == 50 * 1000

\* 1000 m: shorter distances are shown rounded to tens of metres
RoundedBelow == 1000 * 1000

\* int(round(value / 10) * 10): round() takes the even neighbour of a half
round_to_nearest_10(value) ==
    LET tens == value \div 10000
        rest == value % 10000
    IN  10 * (IF rest > 5000 THEN tens + 1
              ELSE IF rest < 5000 THEN tens
              ELSE IF tens % 2 = 0 THEN tens
              ELSE tens + 1)

\* lines 655-666: the stops with a position, sorted by dist_from_start
\* (0 when the stop has none); the sort is stable
stop_points_of(stops) ==
    LET points == [i \in 1..Len(stops) |->
                      [position |-> stops[i].position,
                       dist_from_start |-> get(stops[i], "dist_from_start", 0),
                       id |-> stops[i].id]]
        rank(i) == Cardinality({j \in 1..Len(points) :
                       \/ points[j].dist_from_start < points[i].dist_from_start
                       \/ /\ points[j].dist_from_start = points[i].dist_from_start
                          /\ j < i})
    IN  [k \in 1..Len(points) |->
            points[CHOOSE i \in 1..Len(points) : rank(i) = k - 1]]

\* mutant: the first stop is the starting stop wherever it lies
has_start_stop_anywhere(stop_points) == stop_points # <<>>

\* line 674
has_start_stop(stop_points) ==
    stop_points # <<>> /\ stop_points[1].dist_from_start < EndStopRange

\* lines 699-748: the lists of turns the scan can find from index i on
RECURSIVE scan_turns(_, _)
scan_turns(points, i) ==
    IF ~(i < Len(points) - lookahead) THEN {<<>>}
    ELSE IF is_turn(points, i)
    THEN {<<[instruction |-> "turn"] @@ turn_point(points, i, d)>> \o rest :
             d \in scan_directions(points, i),
             rest \in scan_turns(points, i + lookahead)}
    ELSE scan_turns(points, i + step_size)

\* lines 753-768: the stops that are maneuvers
stop_maneuvers(stop_points, total_length) ==
    LET kept == {i \in 1..Len(stop_points) :
                    /\ ~(has_start_stop(stop_points) /\ i = 1)
                    /\ ~(/\ i = Len(stop_points)
                         /\ stop_points[i].dist_from_start
                                > total_length - EndStopRange)}
        place(k) == CHOOSE i \in kept : Cardinality({j \in kept : j < i}) = k - 1
    IN  [k \in 1..Cardinality(kept) |->
            [type |-> "stop",
             distance |-> stop_points[place(k)].dist_from_start,
             instruction |-> "stop",
             id |-> stop_points[place(k)].id]]

\* mutant: the points keep the order they were collected in
sorted_significant_unsorted(points) ==
    [k \in 1..Len(points) |->
        [distance_from_last |->
            IF k > 1 THEN points[k].distance - points[k - 1].distance
            ELSE points[k].distance] @@ points[k]]

\* lines 771-778: significant_points.sort(key=distance), distance_from_last
sorted_significant(points) ==
    LET rank(i) == Cardinality({j \in 1..Len(points) :
                       \/ points[j].distance < points[i].distance
                       \/ points[j].distance = points[i].distance /\ j < i})
        sorted == [k \in 1..Len(points) |->
                      points[CHOOSE i \in 1..Len(points) : rank(i) = k - 1]]
    IN  [k \in 1..Len(sorted) |->
            [distance_from_last |->
                IF k > 1 THEN sorted[k].distance - sorted[k - 1].distance
                ELSE sorted[k].distance] @@ sorted[k]]

\* the significant points generate_navigation_directions can return
generate_navigation_directions(route, stops, total_length) ==
    IF route = <<>> THEN {<<>>}
    ELSE {sorted_significant(
              turns \o stop_maneuvers(stop_points_of(stops), total_length)) :
            turns \in scan_turns(route_points_of(route, Len(route)), lookback)}

\* lines 856-924: the hint for a cursor distance; None is <<>>
update_navigation_distances(points, total_length, cursor) ==
    LET ahead == {i \in 1..Len(points) : points[i].distance > cursor}
        first == CHOOSE i \in ahead : \A j \in ahead : i <= j
        last == points[Len(points)]
        next_point ==
            IF ahead # {}
            THEN <<[distance_to_current |-> points[first].distance - cursor]
                     @@ points[first]>>
            ELSE IF points # <<>>
            THEN <<[distance_to_current |-> total_length - cursor,
                    instruction |-> IF last.distance < cursor
                                    THEN "arrived" ELSE last.instruction]
                     @@ last>>
            ELSE <<>>
        prev_point == IF ahead # {} /\ first > 1 THEN <<points[first - 1]>> ELSE <<>>
    IN  [next_point |-> next_point,
         rounded_dist |->
            IF next_point # <<>> /\ next_point[1].distance_to_current < RoundedBelow
            THEN <<round_to_nearest_10(next_point[1].distance_to_current)>>
            ELSE <<>>,
         progress |->
            IF next_point # <<>> /\ prev_point # <<>>
            THEN <<cursor - prev_point[1].distance,
                   next_point[1].distance - prev_point[1].distance>>
            ELSE <<>>]

\* the stops of the tracker: at the positions of scenario S4, without a
\* distance or with a persisted one
TrackerStopRecords(id) ==
    {[id |-> id, position |-> StopPosition(id)]}
       \cup {[id |-> id, position |-> StopPosition(id), dist_from_start |-> v] :
               v \in {20 * 1000, 65 * 1000, 75 * 1000}}

\* RouteTracker.__init__: the route is built, no stop loaded yet
TrackerInit ==
    /\ StitchIdle
    /\ StopsIdle
    /\ GpsIdle
    /\ LoopIdle
    /\ NavIdle
    /\ SummaryIdle
    /\ SegmentIdle
    /\ route_data \in ScenarioRoutes
    /\ route_pc = "built"
    /\ route_line = build_route_line(route_data).route_line
    /\ total_route_length = build_route_line(route_data).total_distance
    /\ location = <<>>
    /\ location_info = <<>>
    /\ stop_nodes = <<>>
    /\ sorted_stops = <<>>

\* load_data: one more stop of the stops file
LoadStop ==
    /\ nav_pc = "input"
    /\ Len(stops_data) < MaxTrackerStops
    /\ \E stop \in TrackerStopRecords(Len(stops_data) + 1) :
          stops_data' = Append(stops_data, stop)
    /\ UNCHANGED <<stops_pc, current_distance, previous_stop, next_stop>>
    /\ UNCHANGED <<route_vars, nav_vars>>
    /\ UNCHANGED <<stitch_vars, gps_vars, loop_vars, summary_vars, segment_vars>>

\* lines 926-931
InitializeNavigation ==
    /\ nav_pc = "input"
    /\ navigation_points'
          \in generate_navigation_directions(route_data, stops_data, total_route_length)
    /\ nav_pc' = "ready"
    /\ UNCHANGED hint
    /\ UNCHANGED <<route_vars, stops_vars>>
    /\ UNCHANGED <<stitch_vars, gps_vars, loop_vars, summary_vars, segment_vars>>

\* lines 585-631: locate projects the position and asks for the stops
\* around it
TrackerLocate ==
    /\ nav_pc = "ready"
    /\ \E p \in Grid :
          \E position_info \in {find_location_on_route(route_line, p)} :
             \E found \in {find_nearest_stops(route_line, total_route_length, stops_data,
                                              position_info.distance_from_start)} :
                /\ location' = p
                /\ location_info' = <<position_info>>
                /\ current_distance' = position_info.distance_from_start
                /\ previous_stop' = found.previous_stop
                /\ next_stop' = found.next_stop
    /\ route_pc' = "located"
    /\ stops_pc' = "queried"
    /\ UNCHANGED <<route_data, route_line, total_route_length, stop_nodes, sorted_stops>>
    /\ UNCHANGED stops_data
    /\ UNCHANGED nav_vars
    /\ UNCHANGED <<stitch_vars, gps_vars, loop_vars, summary_vars, segment_vars>>

\* lines 856-924, called with the located distance (line 1055)
UpdateNavigation ==
    /\ nav_pc = "ready"
    /\ location_info # <<>>
    /\ hint' = <<update_navigation_distances(navigation_points, total_route_length,
                                             location_info[1].distance_from_start)>>
    /\ UNCHANGED <<nav_pc, navigation_points>>
    /\ UNCHANGED <<route_vars, stops_vars>>
    /\ UNCHANGED <<stitch_vars, gps_vars, loop_vars, summary_vars, segment_vars>>

TrackerNext ==
    \/ LoadStop
    \/ InitializeNavigation
    \/ TrackerLocate
    \/ UpdateNavigation

SpecTracker == TrackerInit /\ [][TrackerNext]_vars

\* C14: the distance to the maneuver of the hint is never negative.
C14_HintDistanceClamped ==
    (hint # <<>> /\ hint[1].next_point # <<>>) =>
        hint[1].next_point[1].distance_to_current >= 0

\* C16: a hint distance below 1000 m is shown as the nearest multiple of
\* ten metres, a half (a distance ending in 5 m) going up.
C16_RoundHalfUp ==
    (/\ hint # <<>>
     /\ hint[1].rounded_dist # <<>>
     /\ hint[1].next_point[1].distance_to_current >= 0) =>
        hint[1].rounded_dist[1]
            = 10 * ((hint[1].next_point[1].distance_to_current + 5000) \div 10000)

\* ---- the caller of the tracker.  What locate and
\* update_navigation_distances return is built with dict.copy(), a copy of
\* the dict that shares the objects the dict holds: the position list of a
\* returned stop is the position list of the stored stop (lines 400, 429,
\* 438), and the third value update_navigation_distances returns is the
\* stored list navigation_points itself (lines 875, 924).  A write of the
\* caller into a returned value lands in every object that shares it.
write_position(stop, id, v) ==
    IF stop # <<>> /\ stop[1].id = id
    THEN <<[stop[1] EXCEPT !.position[1] = v]>>
    ELSE stop

\* previous_stop["position"][0] = v, or the same on next_stop
WritePosition ==
    \E found \in {previous_stop, next_stop} \ {<<>>} :
       \E v \in 0..GridMax :
          /\ v # found[1].position[1]
          /\ stops_data' = [stops_data EXCEPT ![found[1].id].position[1] = v]
          /\ previous_stop' = write_position(previous_stop, found[1].id, v)
          /\ next_stop' = write_position(next_stop, found[1].id, v)
          /\ UNCHANGED <<navigation_points, hint>>

\* previous_stop["distance_from_start"] = v: a key of the returned dict
WriteStopKey ==
    /\ previous_stop # <<>>
    /\ \E v \in {0, 20 * 1000} :
          /\ v # previous_stop[1].distance_from_start
          /\ previous_stop' = <<[previous_stop[1] EXCEPT !.distance_from_start = v]>>
    /\ UNCHANGED <<stops_data, next_stop, navigation_points, hint>>

\* significant_points[j]["distance"] = v on the list returned with the hint
WriteManeuver ==
    /\ hint # <<>>
    /\ \E j \in 1..Len(navigation_points) :
          \E v \in {0, 20 * 1000} :
             /\ v # navigation_points[j].distance
             /\ navigation_points' = [navigation_points EXCEPT ![j].distance = v]
    /\ UNCHANGED <<stops_data, previous_stop, next_stop, hint>>

CallerModifies ==
    /\ nav_pc = "ready"
    /\ stops_pc = "queried"
    /\ \/ WritePosition
       \/ WriteStopKey
       \/ WriteManeuver
    /\ nav_pc' = "modified"
    /\ UNCHANGED <<stops_pc, current_distance>>
    /\ UNCHANGED route_vars
    /\ UNCHANGED <<stitch_vars, gps_vars, loop_vars, summary_vars, segment_vars>>

CallerNext ==
    \/ LoadStop
    \/ InitializeNavigation
    \/ TrackerLocate
    \/ UpdateNavigation
    \/ CallerModifies

\* the tracker and a caller that writes into what it was given
SpecCaller == TrackerInit /\ [][CallerNext]_vars

\* C20: once navigation is initialised neither a locate, nor an update of
\* the hint, nor a write of the caller into a returned stop or hint changes
\* the route data, the route line, the stored stops or the stored maneuvers.
C20_TrackerPurity ==
    [][nav_pc = "ready" =>
          UNCHANGED <<route_data, route_line, stops_data, navigation_points>>]_vars

\* ===================================================================
\* summary.txt: written by save_files (osm_relation_ways.py), read back by
\* load_data (locate_on_route.py, route_websocket_tracker.py).  A line is
\* the sequence of its words; a word that ends with a colon is a label.
\* Diacritics are left out of the words.
\* ===================================================================

\* ---------------------------------------------------------------- bounds
MaxSummaryStops == 3

\* the distances of the stops, in millimetres
SummaryDistances == {0, 55597, 111194}

\* f"{value:.2f}": the value in hundredths of a metre, as text
format_2f(value) == ToString((value + 5) \div 10)

\* the hundredths the writer can write
Hundredths == {(v + 5) \div 10 : v \in {a - b : a, b \in SummaryDistances}}

\* float(text): the number, or <<>> for ValueError
float_of(text) ==
    IF \E n \in Hundredths : ToString(n) = text
    THEN <<CHOOSE n \in Hundredths : ToString(n) = text>>
    ELSE <<>>

Labels ==
    {"Relacja:", "Liczba odcinkow trasy:", "Calkowita dlugosc trasy:",
     "Odcinki trasy (kolejnosc):", "Way ID:", "(od poczatku trasy):",
     "Stop ID:", "Nazwa:", "Odleglosc od poczatku trasy:",
     "Odleglosc od poprzedniego przystanku:",
     "Odleglosc do nastepnego przystanku:"}

\* lines 1027-1030: the four lines of the i-th stop
stop_lines(stops, i) ==
    <<<<ToString(i) \o ".", "Stop ID:", ToString(stops[i].id), "(role=stop)", "-",
        "Nazwa:", "Bez nazwy">>,
      <<"Odleglosc od poczatku trasy:", format_2f(stops[i].dist_from_start), "m">>,
      <<"Odleglosc od poprzedniego przystanku:",
        format_2f(stops[i].distance_from_prev), "m">>,
      <<"Odleglosc do nastepnego przystanku:",
        format_2f(stops[i].distance_to_next), "m">>>>

RECURSIVE all_stop_lines(_, _)
all_stop_lines(stops, i) ==
    IF i = 0 THEN <<>> ELSE all_stop_lines(stops, i - 1) \o stop_lines(stops, i)

\* lines 1011-1030: the summary of a relation of one way
summary_lines(stops) ==
    <<<<"Relacja:", "1">>,
      <<"Liczba odcinkow trasy:", "1">>,
      <<"Calkowita dlugosc trasy:", format_2f(111194), "m">>,
      <<>>,
      <<"Odcinki trasy (kolejnosc):">>,
      <<"1.", "Way ID:", "1", "(od wezla 1 do 2)">>>>
    \o (IF stops = <<>> THEN <<>>
        ELSE <<<<>>, <<"Przystanki", "(od poczatku trasy):">>>>
               \o all_stop_lines(stops, Len(stops)))

\* "text" in line
contains(line, word) == \E k \in 1..Len(line) : line[k] = word

\* line.startswith("text")
startswith(line, word) == line # <<>> /\ line[1] = word

\* line.split(":")[1].strip(): the words between the first label and the
\* next one (the label that ends the part loses its colon and stays)
after_first_colon(line) ==
    LET colons == {k \in 1..Len(line) : line[k] \in Labels}
        first == CHOOSE k \in colons : \A j \in colons : k <= j
        later == {k \in colons : k > first}
        next == IF later = {} THEN Len(line)
                ELSE CHOOSE k \in later : \A j \in later : k <= j
    IN  IF colons = {} THEN <<>> ELSE SubSeq(line, first + 1, next)

\* lines 139-160 of load_data: one line of the summary
decode_line(state, line) ==
    IF contains(line, "Przystanki")
    THEN [state EXCEPT !.in_stops_section = TRUE]
    ELSE IF state.in_stops_section /\ startswith(line, "Stop ID:")
    THEN [in_stops_section |-> TRUE,
          stops |-> IF DOMAIN state.current_stop # {}
                    THEN Append(state.stops, state.current_stop)
                    ELSE state.stops,
          current_stop |-> ("id" :> after_first_colon(line))]
    ELSE IF state.in_stops_section /\ contains(line, "Odleglosc od poczatku trasy:")
    THEN IF after_first_colon(line) # <<>>
            /\ float_of(after_first_colon(line)[1]) # <<>>
         THEN [state EXCEPT !.current_stop =
                  ("dist_from_start" :> float_of(after_first_colon(line)[1])[1])
                     @@ state.current_stop]
         ELSE state
    ELSE state

RECURSIVE decode_lines(_, _)
decode_lines(lines, i) ==
    IF i = 0
    THEN [in_stops_section |-> FALSE, stops |-> <<>>, current_stop |-> <<>>]
    ELSE decode_line(decode_lines(lines, i - 1), lines[i])

\* lines 133-166: stops_from_summary
decode_summary(lines) ==
    LET state == decode_lines(lines, Len(lines))
    IN  IF DOMAIN state.current_stop # {}
        THEN Append(state.stops, state.current_stop)
        ELSE state.stops

SummaryInit ==
    /\ StitchIdle
    /\ RouteIdle
    /\ StopsIdle
    /\ GpsIdle
    /\ LoopIdle
    /\ NavIdle
    /\ SummaryIdle
    /\ SegmentIdle

\* locate_stops_on_route, lines 246-262: the stops are sorted by
\* dist_from_start and carry the distances to their neighbours
with_neighbour_distances(stops) ==
    [i \in 1..Len(stops) |->
        [id |-> stops[i].id,
         dist_from_start |-> stops[i].dist_from_start,
         distance_from_prev |->
            IF i > 1 THEN stops[i].dist_from_start - stops[i - 1].dist_from_start
            ELSE 0,
         distance_to_next |->
            IF i < Len(stops)
            THEN stops[i + 1].dist_from_start - stops[i].dist_from_start
            ELSE 0]]

\* one more stop for save_files, not nearer to the start than the last
AddSummaryStop ==
    /\ summary_pc = "input"
    /\ Len(summary_stops) < MaxSummaryStops
    /\ \E id \in {Len(summary_stops) + 1, Len(summary_stops) + 11} :
          \E d \in SummaryDistances :
             /\ summary_stops # <<>> =>
                   summary_stops[Len(summary_stops)].dist_from_start <= d
             /\ summary_stops' = with_neighbour_distances(
                   Append(summary_stops, [id |-> id, dist_from_start |-> d]))
    /\ UNCHANGED <<summary_pc, summary_data, stops_from_summary>>
    /\ UNCHANGED <<stitch_vars, route_vars, stops_vars, gps_vars, loop_vars, nav_vars,
                   segment_vars>>

\* save_files, lines 1011-1030
SaveFiles ==
    /\ summary_pc = "input"
    /\ summary_data' = summary_lines(summary_stops)
    /\ summary_pc' = "saved"
    /\ UNCHANGED <<summary_stops, stops_from_summary>>
    /\ UNCHANGED <<stitch_vars, route_vars, stops_vars, gps_vars, loop_vars, nav_vars,
                   segment_vars>>

\* load_data on the written summary
LoadSummary ==
    /\ summary_pc = "saved"
    /\ stops_from_summary' = decode_summary(summary_data)
    /\ summary_pc' = "loaded"
    /\ UNCHANGED <<summary_stops, summary_data>>
    /\ UNCHANGED <<stitch_vars, route_vars, stops_vars, gps_vars, loop_vars, nav_vars,
                   segment_vars>>

SummaryNext ==
    \/ AddSummaryStop
    \/ SaveFiles
    \/ LoadSummary

SpecSummary == SummaryInit /\ [][SummaryNext]_vars

\* C15: the summary written for n >= 1 stops is read back as n stops, the
\* i-th with the id and the dist_from_start (in hundredths of a metre) of
\* the i-th stop written.
C15_SummaryRoundTrip ==
    (summary_pc = "loaded" /\ Len(summary_stops) >= 1) =>
        /\ Len(stops_from_summary) = Len(summary_stops)
        /\ \A i \in 1..Len(stops_from_summary) :
              /\ DOMAIN stops_from_summary[i] = {"id", "dist_from_start"}
              /\ stops_from_summary[i].id = <<ToString(summary_stops[i].id)>>
              /\ stops_from_summary[i].dist_from_start
                    = (summary_stops[i].dist_from_start + 5) \div 10

\* ===================================================================
\* find_segment_index: the way that holds a distance from the start
\* ===================================================================

\* the distances asked about, in millimetres: before the start, multiples
\* of half a grid step, and the 1 000 000 m of scenario S6
SegmentDistances ==
    {-1000, 1000000 * 1000} \cup {k * 111194 : k \in 0..6}

\* lines 419-435: the length of a way (a way of fewer than 2 nodes is
\* passed over and adds nothing)
segment_length(way) ==
    IF Len(way.nodes) < 2 THEN 0 ELSE segment_length_of(way.nodes, Len(way.nodes))

\* cumulative_distance when the loop reaches the i-th way
RECURSIVE cumulative_distance(_, _)
cumulative_distance(route, i) ==
    IF i <= 1 THEN 0
    ELSE cumulative_distance(route, i - 1) + segment_length(route[i - 1])

\* line 441: the test of the i-th way, with the running total
holds_distance_no_total(route, i, target) ==
    /\ Len(route[i].nodes) >= 2
    /\ 0 <= target
    /\ target <= segment_length(route[i])

holds_distance(route, i, target) ==
    /\ Len(route[i].nodes) >= 2
    /\ cumulative_distance(route, i) <= target
    /\ target <= cumulative_distance(route, i) + segment_length(route[i])

\* lines 443-458: the record of the way found; segment_index counts from 0
\* and segment_percentage is in whole percent, rounded down
segment_found(route, i, target) ==
    [segment_index |-> i - 1,
     segment_id |-> route[i].id,
     distance_in_segment |-> target - cumulative_distance(route, i),
     segment_percentage |->
        IF segment_length(route[i]) > 0
        THEN ((target - cumulative_distance(route, i)) * 100)
                \div segment_length(route[i])
        ELSE 0,
     segment_length |-> segment_length(route[i])]

\* lines 408-509: the record returned, or None
find_segment_index(route, target) ==
    LET holding == {i \in 1..Len(route) : holds_distance(route, i, target)}
        total == cumulative_distance(route, Len(route) + 1)
    IN  IF holding # {}
        THEN <<segment_found(route, CHOOSE i \in holding : \A j \in holding : i <= j,
                             target)>>
        ELSE IF route # <<>> /\ target > total
        THEN <<[segment_index |-> Len(route) - 1,
                segment_id |-> route[Len(route)].id,
                distance_in_segment |->
                    segment_length_of(route[Len(route)].nodes, Len(route[Len(route)].nodes)),
                segment_percentage |-> 100,
                segment_length |->
                    segment_length_of(route[Len(route)].nodes, Len(route[Len(route)].nodes)),
                warning |-> "last"]>>
        ELSE IF route # <<>> /\ target < 0
        THEN <<[segment_index |-> 0,
                segment_id |-> route[1].id,
                distance_in_segment |-> 0,
                segment_percentage |-> 0,
                segment_length |-> segment_length_of(route[1].nodes, Len(route[1].nodes)),
                warning |-> "first"]>>
        ELSE <<>>

\* find_segment_index for the ways assembled so far
FindSegment ==
    /\ route_pc = "input"
    /\ \E target \in SegmentDistances :
          /\ target_distance' = <<target>>
          /\ segment_info' = find_segment_index(route_data, target)
    /\ route_pc' = "segment"
    /\ UNCHANGED <<route_data, route_line, total_route_length, location, location_info,
                   stop_nodes, sorted_stops>>
    /\ UNCHANGED <<stitch_vars, stops_vars, gps_vars, loop_vars, nav_vars, summary_vars>>

SegmentNext ==
    \/ AddRouteWay
    \/ ExtendRouteWay
    \/ FindSegment

\* ways are assembled and a distance is looked up in them
SpecSegment == RouteInit /\ [][SegmentNext]_vars

\* the total of the ways' lengths
RECURSIVE ways_total(_, _)
ways_total(route, i) ==
    IF i = 0 THEN 0
    ELSE ways_total(route, i - 1) + segment_length_of(route[i].nodes, Len(route[i].nodes))

\* C17: for a non-empty route a distance beyond the total of the ways'
\* lengths gives the last way with 100 percent and a warning, a negative
\* distance gives the first way with 0 percent and a warning, and a
\* distance within [0, total] gives a way without warning whose offset lies
\* within the way and, added to the lengths of the ways before it, is the
\* distance asked about.
C17_SegmentClamping ==
    (route_pc = "segment" /\ route_data # <<>>) =>
        /\ segment_info # <<>>
        /\ target_distance[1] > ways_total(route_data, Len(route_data)) =>
              /\ segment_info[1].segment_index = Len(route_data) - 1
              /\ segment_info[1].segment_percentage = 100
              /\ "warning" \in DOMAIN segment_info[1]
        /\ target_distance[1] < 0 =>
              /\ segment_info[1].segment_index = 0
              /\ segment_info[1].segment_percentage = 0
              /\ "warning" \in DOMAIN segment_info[1]
        /\ (/\ 0 <= target_distance[1]
            /\ target_distance[1] <= ways_total(route_data, Len(route_data))) =>
              /\ "warning" \notin DOMAIN segment_info[1]
              /\ 0 <= segment_info[1].distance_in_segment
              /\ segment_info[1].distance_in_segment <= segment_info[1].segment_length
              /\ segment_info[1].segment_length
                    = segment_length_of(route_data[segment_info[1].segment_index + 1].nodes,
                         Len(route_data[segment_info[1].segment_index + 1].nodes))
              /\ ways_total(route_data, segment_info[1].segment_index)
                    + segment_info[1].distance_in_segment = target_distance[1]

\* a distance inside the second of two ways was looked up
C17_Witness ==
    /\ route_pc = "segment"
    /\ Len(route_data) = 2
    /\ segment_info # <<>>
    /\ "warning" \notin DOMAIN segment_info[1]
    /\ segment_info[1].segment_index = 1
    /\ segment_info[1].distance_in_segment > 0

\* ===================================================================
\* generate_gps_directions with stops (osm_relation_ways.py): the stops
\* among the maneuvers
\* ===================================================================

\* ---------------------------------------------------------------- bounds
MaxDirectionStops == 3

\* lines 709-713: the sum of the lengths of the ways
RECURSIVE total_distance_of(_, _)
total_distance_of(ways, i) ==
    IF i = 0 THEN 0
    ELSE total_distance_of(ways, i - 1)
            + segment_length_of(ways[i].nodes, Len(ways[i].nodes))

\* lines 660-815: the significant points the function can return
generate_gps_directions(ways, stops) ==
    IF ways = <<>> THEN {<<>>}
    ELSE {sorted_significant(
              turns \o stop_maneuvers(stop_points_of(stops),
                                      total_distance_of(ways, Len(ways)))) :
            turns \in scan_turns(route_points_of(ways, Len(ways)), lookback)}

\* the routes: one leg, the two legs of scenario S2, and two long legs
\* with a bend
DirectionRoutes ==
    {<<LegWay(1, <<0, 0>>, <<0, 1>>, 1, 2)>>,
     <<LegWay(1, <<0, 0>>, <<0, 1>>, 1, 2), LegWay(2, <<0, 2>>, <<1, 0>>, 1, 2)>>,
     <<LegWay(1, <<0, 0>>, <<0, 1>>, MaxLegSteps, 1),
       LegWay(2, <<0, MaxLegSteps>>, <<1, 0>>, MaxLegSteps, 1)>>}

\* the distances of the stops, in millimetres: at, near and beyond 50 m
\* from either end of the route
DirectionStopDistances(total) ==
    {0, 20 * 1000, 50 * 1000, 60 * 1000,
     total - 60 * 1000, total - 50 * 1000, total - 20 * 1000, total}

DirectionsInit ==
    /\ StitchIdle
    /\ RouteIdle
    /\ StopsIdle
    /\ LoopIdle
    /\ NavIdle
    /\ SummaryIdle
    /\ SegmentIdle
    /\ gps_ways \in DirectionRoutes
    /\ gps_pc = "input"
    /\ route_points = <<>>
    /\ scan_i = 0
    /\ turn_points = <<>>
    /\ significant_points = <<>>

\* one more stop of the list handed to generate_gps_directions
AddDirectionStop ==
    /\ gps_pc = "input"
    /\ Len(sorted_stops) < MaxDirectionStops
    /\ \E d \in DirectionStopDistances(total_distance_of(gps_ways, Len(gps_ways))) :
          sorted_stops' = Append(sorted_stops,
                                 [id |-> Len(sorted_stops) + 1,
                                  position |-> <<0, 0>>,
                                  dist_from_start |-> d])
    /\ UNCHANGED <<route_data, route_pc, route_line, total_route_length, location,
                   location_info, stop_nodes>>
    /\ UNCHANGED gps_vars
    /\ UNCHANGED <<stitch_vars, stops_vars, loop_vars, nav_vars, summary_vars, segment_vars>>

\* lines 660-815
GenerateDirections ==
    /\ gps_pc = "input"
    /\ route_points' = route_points_of(gps_ways, Len(gps_ways))
    /\ significant_points' \in generate_gps_directions(gps_ways, sorted_stops)
    /\ gps_pc' = "directed"
    /\ UNCHANGED <<gps_ways, scan_i, turn_points>>
    /\ UNCHANGED other_than_gps

DirectionsNext ==
    \/ AddDirectionStop
    \/ GenerateDirections

SpecDirections == DirectionsInit /\ [][DirectionsNext]_vars

\* the place of the i-th stop given in the stops sorted by dist_from_start
\* (stable)
stop_rank(stops, i) ==
    Cardinality({j \in 1..Len(stops) :
        \/ stops[j].dist_from_start < stops[i].dist_from_start
        \/ stops[j].dist_from_start = stops[i].dist_from_start /\ j < i}) + 1

\* the Stop maneuvers that carry the i-th stop
stop_maneuvers_of(stops, i) ==
    {k \in 1..Len(significant_points) :
        /\ significant_points[k].type = "stop"
        /\ significant_points[k].id = stops[i].id}

\* C21: a stop is a Stop maneuver unless it is the first stop and lies
\* nearer than 50 m to the start of the route, or the last stop and lies
\* nearer than 50 m to its end; every other stop is a Stop maneuver exactly
\* once, at its dist_from_start.
C21_TerminalStops ==
    gps_pc = "directed" =>
        \E total \in {total_distance_of(gps_ways, Len(gps_ways))} :
           \A i \in 1..Len(sorted_stops) :
              IF \/ /\ stop_rank(sorted_stops, i) = 1
                    /\ sorted_stops[i].dist_from_start < 50 * 1000
                 \/ /\ stop_rank(sorted_stops, i) = Len(sorted_stops)
                    /\ sorted_stops[i].dist_from_start > total - 50 * 1000
              THEN stop_maneuvers_of(sorted_stops, i) = {}
              ELSE /\ Cardinality(stop_maneuvers_of(sorted_stops, i)) = 1
                   /\ \A k \in stop_maneuvers_of(sorted_stops, i) :
                         significant_points[k].distance = sorted_stops[i].dist_from_start

\* three stops: the first near the start, the last near the end, and the
\* one between them a maneuver
C21_Witness ==
    /\ gps_pc = "directed"
    /\ Len(sorted_stops) = 3
    /\ \E i, j, k \in 1..3 :
          /\ stop_rank(sorted_stops, i) = 1
          /\ sorted_stops[i].dist_from_start = 20 * 1000
          /\ stop_rank(sorted_stops, k) = 3
          /\ sorted_stops[k].dist_from_start
                = total_distance_of(gps_ways, Len(gps_ways)) - 20 * 1000
          /\ stop_rank(sorted_stops, j) = 2
          /\ stop_maneuvers_of(sorted_stops, j) # {}
          /\ stop_maneuvers_of(sorted_stops, i) = {}
          /\ stop_maneuvers_of(sorted_stops, k) = {}

\* ===================================================================
\* locate_stops_on_route: the order of the stops it returns
\* ===================================================================

\* ---------------------------------------------------------------- bounds
MaxIndexStops == 3

\* the positions of the stops: on nodes of the routes, between them and
\* beside them
StopIndexPositions == {<<0, 0>>, <<1, 0>>, <<0, 1>>, <<1, 2>>, <<2, 2>>}

\* one more stop of the relation
AddIndexStop ==
    /\ route_pc = "built"
    /\ Len(stop_nodes) < MaxIndexStops
    /\ \E position \in StopIndexPositions :
          stop_nodes' = Append(stop_nodes, StopNode(Len(stop_nodes) + 1, position))
    /\ UNCHANGED <<route_data, route_pc, route_line, total_route_length, location,
                   location_info, sorted_stops>>
    /\ UNCHANGED other_than_route

\* lines 203-264
IndexStops ==
    /\ route_pc = "built"
    /\ sorted_stops' = locate_stops_on_route(route_data, stop_nodes)
    /\ route_pc' = "indexed"
    /\ UNCHANGED <<route_data, route_line, total_route_length, location, location_info,
                   stop_nodes>>
    /\ UNCHANGED other_than_route

StopOrderNext ==
    \/ AddIndexStop
    \/ IndexStops

\* stops are collected and indexed against a route
SpecStopOrder == StopsInit /\ [][StopOrderNext]_vars

\* C22: the stops returned are the stops given, in the order of their
\* dist_from_start, stops at one distance in the order of the input (the
\* ids count the input); distance_from_prev and distance_to_next are the
\* differences to the neighbours, never negative, 0 at the first and at the
\* last stop.
C22_StopOrder ==
    route_pc = "indexed" =>
        /\ Len(sorted_stops) = Len(stop_nodes)
        /\ {sorted_stops[i].id : i \in 1..Len(sorted_stops)} = 1..Len(stop_nodes)
        /\ \A i \in 1..(Len(sorted_stops) - 1) :
              /\ sorted_stops[i].dist_from_start <= sorted_stops[i + 1].dist_from_start
              /\ sorted_stops[i].dist_from_start = sorted_stops[i + 1].dist_from_start
                    => sorted_stops[i].id < sorted_stops[i + 1].id
        /\ \A i \in 1..Len(sorted_stops) :
              /\ sorted_stops[i].distance_from_prev >= 0
              /\ sorted_stops[i].distance_to_next >= 0
              /\ sorted_stops[i].distance_from_prev =
                    IF i = 1 THEN 0
                    ELSE sorted_stops[i].dist_from_start
                            - sorted_stops[i - 1].dist_from_start
              /\ sorted_stops[i].distance_to_next =
                    IF i = Len(sorted_stops) THEN 0
                    ELSE sorted_stops[i + 1].dist_from_start
                            - sorted_stops[i].dist_from_start

\* three stops were indexed: the one given last comes first, the other two
\* lie at one distance
C22_Witness ==
    /\ route_pc = "indexed"
    /\ Len(sorted_stops) = 3
    /\ sorted_stops[1].id = 3
    /\ sorted_stops[1].dist_from_start < sorted_stops[2].dist_from_start
    /\ sorted_stops[2].dist_from_start = sorted_stops[3].dist_from_start

\* C23: along the list of maneuvers the distance from the start of the route
\* never decreases, and every maneuver's distance_from_last is the
\* difference to the maneuver before it, never negative; the first
\* maneuver's is its own distance from the start.
C23_ManeuverMonotonicity ==
    gps_pc = "directed" =>
        \A k \in 1..Len(significant_points) :
           /\ significant_points[k].distance_from_last >= 0
           /\ significant_points[k].distance_from_last =
                 IF k = 1 THEN significant_points[k].distance
                 ELSE significant_points[k].distance
                         - significant_points[k - 1].distance
           /\ k > 1 => significant_points[k - 1].distance
                          <= significant_points[k].distance

\* stops were collected after the turns and stand before a turn in the list
C23_Witness ==
    /\ gps_pc = "directed"
    /\ \E k \in 1..Len(significant_points) :
          /\ significant_points[k].type = "stop"
          /\ \E j \in 1..Len(significant_points) :
                /\ j > k
                /\ significant_points[j].type # "stop"
                /\ significant_points[j].distance > significant_points[k].distance
    /\ \E k \in 2..Len(significant_points) :
          significant_points[k].distance_from_last > 0

\* ===================================================================
\* the two vertex lists assembled from the stitched ways:
\* build_route_line (all_points) and generate_gps_directions (route_points)
\* ===================================================================

\* generate_gps_directions for the ways collected so far, without stops
DirectionsOfRoute ==
    /\ gps_pc = "input"
    /\ route_data # <<>>
    /\ gps_ways' = route_data
    /\ route_points' = route_points_of(route_data, Len(route_data))
    /\ significant_points' \in generate_gps_directions(route_data, <<>>)
    /\ gps_pc' = "directed"
    /\ UNCHANGED <<scan_i, turn_points>>
    /\ UNCHANGED other_than_gps

PolylineNext ==
    \/ AddRouteWay
    \/ ExtendRouteWay
    \/ BuildRoute
    \/ DirectionsOfRoute

\* ways are collected; the route is built from them and the maneuvers are
\* extracted from them
SpecPolyline == RouteInit /\ [][PolylineNext]_vars

\* the vertices of the first i ways, the first vertex of a way left out
\* exactly where it is the last vertex of the way before it
RECURSIVE joined_vertices(_, _)
joined_vertices(ways, i) ==
    IF i = 0 THEN <<>>
    ELSE IF i > 1 /\ ways[i].nodes[1] = ways[i - 1].nodes[Len(ways[i - 1].nodes)]
         THEN joined_vertices(ways, i - 1) \o Tail(ways[i].nodes)
         ELSE joined_vertices(ways, i - 1) \o ways[i].nodes

\* C24: in the vertex list of the Route builder and in the vertex list of
\* the maneuver extractor the first vertex of a way is left out only where
\* it equals the last vertex of the way before it; where two successive
\* ways do not join, every vertex of the later way is kept.
C24_DuplicateJoinsOnly ==
    /\ collect_points(route_data, Len(route_data)).all_points
          = joined_vertices(route_data, Len(route_data))
    /\ gps_pc = "directed" => route_points = joined_vertices(gps_ways, Len(gps_ways))

\* ===================================================================
\* the growth of a residual chain
\* ===================================================================

\* C25: where a residual chain grows at a node that has an unused way
\* starting there and an unused way ending there, the way taken is one that
\* starts there, in its natural orientation, whatever the order in which
\* the two ways were indexed.
C25_ChainPrefersNatural ==
    [][(/\ stitch_pc = "grow"
        /\ connecting_ways_original(route_ways_of(raw_ways), current_node, used_way_ids) # <<>>
        /\ connecting_ways_reversed(route_ways_of(raw_ways), current_node, used_way_ids) # <<>>)
        => /\ Len(current_chain') = Len(current_chain) + 1
           /\ ~current_chain'[Len(current_chain')].reversed
           /\ current_chain'[Len(current_chain')].way.start_node = current_node]_stitch_vars

\* ===================================================================
\* chain consolidation
\* ===================================================================

\* an end node of the chain is the start node or the end node of main
endpoints_match(main, chain) ==
    \/ seg_end_node(main[Len(main)]) = seg_start_node(chain[1])
    \/ seg_start_node(main[1]) = seg_end_node(chain[Len(chain)])
    \/ seg_end_node(main[Len(main)]) = seg_end_node(chain[Len(chain)])
    \/ seg_start_node(main[1]) = seg_start_node(chain[1])

\* joined is main with attached after it or before it, and the two
\* segments that meet share a node
spliced_continuously(joined, main, attached) ==
    \/ /\ joined = main \o attached
       /\ seg_end_node(joined[Len(main)]) = seg_start_node(joined[Len(main) + 1])
    \/ /\ joined = attached \o main
       /\ seg_end_node(joined[Len(attached)]) = seg_start_node(joined[Len(attached) + 1])

\* C26: a residual chain with an end node on the start node or the end node
\* of the main chain is attached to it, as it is or in reverse order with
\* every orientation flag flipped, so that the two segments that meet at the
\* splice share that node; only a chain with no such end node is attached
\* with a gap.
C26_SpliceContinuity ==
    [][(/\ stitch_pc = "consolidate"
        /\ pending_chains # <<>>
        /\ final_chain # <<>>
        /\ Head(pending_chains) # <<>>
        /\ endpoints_match(final_chain, Head(pending_chains)))
        => \/ spliced_continuously(final_chain', final_chain, Head(pending_chains))
           \/ spliced_continuously(final_chain', final_chain,
                                   flip_chain(Head(pending_chains)))]_stitch_vars

\* a residual chain was attached before the main chain, in reverse order
\* and flipped, and meets it at a shared node
C26_Witness ==
    /\ stitch_pc \in {"consolidate", "done"}
    /\ \E k \in 1..Len(chain_segments) :
          /\ Len(final_chain) > Len(chain_segments[k])
          /\ SubSeq(final_chain, 1, Len(chain_segments[k])) = flip_chain(chain_segments[k])
          /\ flip_chain(chain_segments[k]) # chain_segments[k]
          /\ seg_end_node(final_chain[Len(chain_segments[k])])
                = seg_start_node(final_chain[Len(chain_segments[k]) + 1])

\* ===================================================================
\* a fix on which the Tracker raises
\* ===================================================================

\* C27: a step of the loop in which the Tracker raised on a fix leaves
\* last_position, last_result and last_update_time as they were before the
\* fix and does not end the loop: running is unchanged and the loop is back
\* at its test, so that it receives the next message (it returns only if
\* stop_tracking had been called).
C27_FixFailureIsolation ==
    [][(/\ Len(fix_log') > Len(fix_log)
        /\ fix_log'[Len(fix_log')].raised) =>
          /\ last_position' = last_position
          /\ last_result' = last_result
          /\ last_update_time' = last_update_time
          /\ running' = running
          /\ running => loop_pc' = "recv"
          /\ loop_pc' \in {"recv", "returned"}]_vars

\* a fix was delivered, the Tracker raised on a later fix at another
\* location, the loop received a further message, and the caches still hold
\* the fix that was delivered
C27_Witness ==
    \E j \in 1..Len(fix_log) : \E k \in 1..Len(fix_log) :
        /\ j < k
        /\ k < Len(fix_log)
        /\ fix_log[j].invoked
        /\ ~fix_log[j].raised
        /\ fix_log[k].raised
        /\ fix_location(k) # fix_location(j)
        /\ \A m \in (j + 1)..Len(fix_log) : ~fix_log[m].invoked \/ fix_log[m].raised
        /\ last_position # <<>>
        /\ <<last_position[1].latitude, last_position[1].longitude>> = fix_location(j)
        /\ last_update_time = <<fix_log[j].time>>

\* ===================================================================
\* simple paths and simple cycles
\* ===================================================================

\* the number of ends of the ways rw at node n
degree(rw, n) ==
    Cardinality({i \in 1..Len(rw) : rw[i].start_node = n})
        + Cardinality({i \in 1..Len(rw) : rw[i].end_node = n})

end_nodes_of(rw) ==
    {rw[i].start_node : i \in 1..Len(rw)} \cup {rw[i].end_node : i \in 1..Len(rw)}

\* the nodes reached from the nodes S over at most k ways
RECURSIVE reached(_, _, _)
reached(rw, S, k) ==
    IF k = 0 THEN S
    ELSE reached(rw,
                 S \cup {rw[i].end_node : i \in {j \in 1..Len(rw) : rw[j].start_node \in S}}
                   \cup {rw[i].start_node : i \in {j \in 1..Len(rw) : rw[j].end_node \in S}},
                 k - 1)

connected(rw) ==
    /\ rw # <<>>
    /\ reached(rw, {rw[1].start_node}, Len(rw)) = end_nodes_of(rw)

simple_path(rw) ==
    /\ connected(rw)
    /\ Cardinality({n \in end_nodes_of(rw) : degree(rw, n) = 1}) = 2
    /\ \A n \in end_nodes_of(rw) : degree(rw, n) \in {1, 2}

simple_cycle(rw) ==
    /\ connected(rw)
    /\ \A n \in end_nodes_of(rw) : degree(rw, n) = 2

\* every way of the list ends where the next one starts
continuous_chain(ways) ==
    \A i \in 1..(Len(ways) - 1) : ways[i].end_node = ways[i + 1].start_node

progress_percentage(distance_from_start, total_length) ==
    IF total_length > 0 THEN (distance_from_start * 100 * 10) \div total_length ELSE 0

\* C29: for a route of positive length the progress reported for a located
\* position lies between 0 and 100 percent.
C29_ProgressIsPercentage ==
    (/\ nav_pc = "ready"
     /\ route_pc = "located"
     /\ location_info # <<>>
     /\ total_route_length > 0) =>
        /\ 0 <= progress_percentage(location_info[1].distance_from_start, total_route_length)
        /\ progress_percentage(location_info[1].distance_from_start, total_route_length)
              <= 100 * 10

\* ===================================================================
\* the previous and the next stop of one query
\* ===================================================================

\* C30: the stop returned as the previous stop and the stop returned as the
\* next stop are never the same stop, and the previous stop is not farther
\* from the start than the next stop.
C30_PreviousAndNextDistinct ==
    (stops_pc = "queried" /\ previous_stop # <<>> /\ next_stop # <<>>) =>
        /\ previous_stop[1].id # next_stop[1].id
        /\ previous_stop[1].distance_from_start <= next_stop[1].distance_from_start

====
